---- MODULE Spec2Model ----
(***************************************************************************)
(* Session continuity of the mock-interview application.                   *)
(*                                                                         *)
(* The model covers the session store (saveInterviewSession,               *)
(* loadInterviewSession, clearInterviewSession, recoverSession,            *)
(* upgradeSessionFormat, getSessionStats, enableAutoSave and the interval  *)
(* timers behind it), the two Web Storage areas it works on, the           *)
(* wall clock read through Date.now(), and the identity handling of        *)
(* useAuth (getSession, the onAuthStateChange handler,                     *)
(* clearUserInterviewData, authHelpers.signOut).                           *)
(*                                                                         *)
(* JavaScript runs every one of these functions to completion on the one   *)
(* event loop, so each call is one atomic action.                          *)
(***************************************************************************)
EXTENDS Integers, Sequences, FiniteSets, TLC

VARIABLES
    sessionStorage,   \* window.sessionStorage: key -> stored text
    localStorage,     \* window.localStorage:   key -> stored text
    now,              \* the wall clock, the value Date.now() returns
    providerUser,     \* the identity the auth provider holds a session for
    user,             \* useAuth state `user`
    loading,          \* useAuth state `loading`
    getSessionPending,\* the getSession() promise of the mount effect is unresolved
    timers,           \* the interval timers of the page, by the id setInterval gave
    cancelled,        \* ids whose cancel function (of enableAutoSave) has been called
    otherTab,         \* window.sessionStorage of a second tab of the same browser
    app,              \* the state of AppContent (useState values, effect cleanup)
    speech,           \* the state of useSpeechRecognition (useState values, refs)
    last              \* what the most recent call did and returned

vars == <<sessionStorage, localStorage, now, providerUser, user, loading,
          getSessionPending, timers, cancelled, otherTab, app, speech, last>>
autoSaveVars == <<timers, cancelled>>
appVars == <<otherTab, app, speech>>

----------------------------------------------------------------------------
(* Bounds of the model *)

\* The clock takes the values Epoch + a + b * SESSION_TIMEOUT, for a
\* millisecond a in 0..1 and b in 0..MaxPeriods.
MaxPeriods == 1

\* The number of interval timers a page sets in its life.
MaxTimers == 2

\* The number of final phrases the transcript is followed up to.
MaxPhrases == 2

----------------------------------------------------------------------------
(* Program constants *)

SESSION_KEY == "interviewSession"
BACKUP_KEY == "interviewSessionBackup"
SESSION_TIMEOUT == 2 * 60 * 60 * 1000
CURRENT_VERSION == "2.0"
USER_ID_KEY == "currentUserId"
QUOTA_EXCEEDED_ERR == 22

Users == {"A", "B"}
NoUser == "none"
\* The identity of whoever left data behind before the first state.
Earlier == "earlier"

ScopedSessionKey(userId) == "interview_" \o userId \o "_session"
ScopedBackupKey(userId) == "interview_" \o userId \o "_backup"

StorageKeys ==
    {SESSION_KEY, BACKUP_KEY, USER_ID_KEY}
        \cup {ScopedSessionKey(u) : u \in Users}
        \cup {ScopedBackupKey(u) : u \in Users}

Epoch == 2 * SESSION_TIMEOUT
Instants ==
    {Epoch + a + b * SESSION_TIMEOUT : a \in 0..1, b \in 0..MaxPeriods}

----------------------------------------------------------------------------
(* JavaScript values and stored texts *)

\* A JavaScript value that a session variable can hold.
Null == [t |-> "null"]
Undefined == [t |-> "undefined"]
Obj(o) == [t |-> "obj", f |-> o]
IsObj(v) == v.t = "obj"
\* if (session) / if (!session)
Truthy(v) == v.t = "obj"

\* What getItem returns: null (Absent), or a string.  A string is either the
\* text of a JSON value or a text JSON.parse rejects (Raw).
Absent == [kind |-> "absent"]
Raw(s) == [kind |-> "raw", s |-> s]
JsonText(v) == [kind |-> "json", v |-> v]
\* saved ? ... : null
Present(text) == text.kind # "absent"

\* Errors that can be thrown.
NoError == [name |-> "none", isDOMException |-> FALSE, code |-> 0]
QuotaExceededError ==
    [name |-> "QuotaExceededError", isDOMException |-> TRUE, code |-> QUOTA_EXCEEDED_ERR]
SecurityError == [name |-> "SecurityError", isDOMException |-> TRUE, code |-> 18]
SyntaxError == [name |-> "SyntaxError", isDOMException |-> FALSE, code |-> 0]
TypeError == [name |-> "TypeError", isDOMException |-> FALSE, code |-> 0]
Threw(r) == r.exc # NoError

\* JSON.stringify leaves out the fields of an object whose value is undefined.
\* Of the fields a session has, the ones that hold an object can be tested
\* for it here.
UndefinedFields(o) ==
    {f \in DOMAIN o \cap {"settings", "interviewMetrics"} : o[f] = Undefined}
Defined(o) ==
    IF UndefinedFields(o) = {} THEN o
    ELSE [f \in DOMAIN o \ UndefinedFields(o) |-> o[f]]
JSONstringify(v) == JsonText(IF IsObj(v) THEN Obj(Defined(v.f)) ELSE v)

\* JSON.parse: the value of a JSON text, a SyntaxError on any other text.
JSONparse(text) ==
    IF text.kind = "json"
    THEN [exc |-> NoError, val |-> text.v]
    ELSE [exc |-> SyntaxError, val |-> Null]

----------------------------------------------------------------------------
(* Web Storage.  An access to a storage area throws a SecurityError when   *)
(* the user agent denies the origin access to storage, and that policy     *)
(* covers both areas alike (env.blocked).  setItem throws a                *)
(* QuotaExceededError when the area is out of space; each area has its own *)
(* quota (env.ssFull, env.lsFull).                                         *)

\* At most one of the three per call: with access denied no call gets as far
\* as a quota check, and every function here that writes both areas writes
\* sessionStorage first and stops at the first write that throws.
Envs ==
    {e \in [blocked : BOOLEAN, ssFull : BOOLEAN, lsFull : BOOLEAN] :
        /\ e.blocked => ~e.ssFull /\ ~e.lsFull
        /\ e.ssFull => ~e.lsFull}
NoFailure == [blocked |-> FALSE, ssFull |-> FALSE, lsFull |-> FALSE]

getItem(store, key, env) ==
    IF env.blocked
    THEN [exc |-> SecurityError, val |-> Absent]
    ELSE [exc |-> NoError, val |-> store[key]]

setItem(store, key, text, full, env) ==
    IF env.blocked THEN [exc |-> SecurityError, store |-> store]
    ELSE IF full THEN [exc |-> QuotaExceededError, store |-> store]
    ELSE [exc |-> NoError, store |-> [store EXCEPT ![key] = text]]

removeItem(store, key, env) ==
    IF env.blocked
    THEN [exc |-> SecurityError, store |-> store]
    ELSE [exc |-> NoError, store |-> [store EXCEPT ![key] = Absent]]

----------------------------------------------------------------------------
(* Session records.  A record is a function from the names of the fields   *)
(* it has to their values; a field it lacks is not in its domain.          *)

Has(o, f) == f \in DOMAIN o

\* The interview configuration.  `owner` stands for the content the user
\* entered: it names the identity whose interview the record belongs to.
Settings(u) == [questionCount |-> 5, owner |-> u]
Question(ts) == [question |-> "q", answer |-> "a", timestamp |-> ts]

\* The record AppContent builds before it saves, in the save effect and in
\* the visibility handler, from its state and Date.now() = t.
SessionOf(interviewSettings, interviewQuestions, t) ==
    [settings |-> interviewSettings,
     questions |-> interviewQuestions,
     currentQuestionIndex |-> Len(interviewQuestions) - 1,
     isCompleted |-> FALSE,
     startTime |-> IF interviewQuestions # <<>>
                   THEN interviewQuestions[1].timestamp ELSE t,
     lastUpdated |-> t,
     version |-> "3.0"]
AppSession(u, qs, t) == SessionOf(Settings(u), qs, t)

\* Records a caller of the session store can pass besides AppContent's: one
\* with none of the optional fields, one with all fields of version 2.0.
BareSession(u, t) ==
    [settings |-> Settings(u), questions |-> <<>>, isCompleted |-> FALSE,
     startTime |-> t]
RichSession(u, t) ==
    [conversationQuality |-> "deep",
     coveredTopics |-> <<"motivation">>,
     interviewMetrics |->
        [totalResponseTime |-> 9, averageResponseLength |-> 9, deepDiveCount |-> 1]]
        @@ AppSession(u, <<Question(Epoch), Question(Epoch)>>, t)

\* A record with an optional field set to undefined.
SessionWithUndefinedField(u, t) ==
    [interviewMetrics |-> Undefined] @@ AppSession(u, <<Question(t)>>, t)

SaveInputs(u, t) ==
    {AppSession(u, <<>>, t), BareSession(u, t), RichSession(u, t)}

\* The UTF-16 code units of the version strings that occur.
CodeUnits(s) ==
    CASE s = "" -> <<>>
      [] s = "1.0" -> <<49, 46, 48>>
      [] s = "2.0" -> <<50, 46, 48>>
      [] s = "3.0" -> <<51, 46, 48>>
      [] s = "10.0" -> <<49, 48, 46, 48>>

\* a < b on two strings: lexicographic order of the code units.
StringLess(a, b) ==
    LET x == CodeUnits(a)
        y == CodeUnits(b)
        Common(i) == \A j \in 1..(i - 1) : x[j] = y[j]
    IN  \/ \E i \in 1..Len(x) : i <= Len(y) /\ Common(i) /\ x[i] < y[i]
        \/ Len(x) < Len(y) /\ Common(Len(x) + 1)

\* session.lastUpdated || session.startTime, as a sequence of at most one
\* number: <<>> is undefined.
LastUpdatedOrStart(o) ==
    IF Has(o, "lastUpdated") /\ o.lastUpdated # 0 THEN <<o.lastUpdated>>
    ELSE IF Has(o, "startTime") THEN <<o.startTime>>
    ELSE <<>>

\* now - lastUpdated > SESSION_TIMEOUT.  With lastUpdated undefined the
\* difference is NaN and the comparison is false.
ExpiredAfterOneHour(o, t) ==
    LET lu == LastUpdatedOrStart(o)
    IN  lu # <<>> /\ t - lu[1] > 60 * 60 * 1000
Expired(o, t) ==
    LET lu == LastUpdatedOrStart(o)
    IN  lu # <<>> /\ t - lu[1] > SESSION_TIMEOUT

\* !session.version || session.version < '2.0'
NeedsUpgrade(o) ==
    \/ ~Has(o, "version")
    \/ o.version = ""
    \/ StringLess(o.version, CURRENT_VERSION)

\* { ...oldSession, version, lastUpdated, conversationQuality, coveredTopics,
\*   interviewMetrics }: the named fields override the old record's.
UpgradeWithoutTopics(oldSession, t) ==
    [version |-> CURRENT_VERSION,
     lastUpdated |-> t,
     conversationQuality |-> "moderate",
     interviewMetrics |->
        [totalResponseTime |-> 0, averageResponseLength |-> 0, deepDiveCount |-> 0]]
        @@ oldSession
upgradeSessionFormat(oldSession, t) ==
    [version |-> CURRENT_VERSION,
     lastUpdated |-> t,
     conversationQuality |-> "moderate",
     coveredTopics |-> <<>>,
     interviewMetrics |->
        [totalResponseTime |-> 0, averageResponseLength |-> 0, deepDiveCount |-> 0]]
        @@ oldSession

----------------------------------------------------------------------------
(* The session store.  Each function takes the two storage areas and       *)
(* yields them as it leaves them (ss, ls), what it returns (ret), the      *)
(* exception that escapes it (exc), and what it did on the way.            *)

Quiet(ss, ls) ==
    [ss |-> ss, ls |-> ls,
     ret |-> Undefined,      \* the value returned
     exc |-> NoError,        \* the exception that escapes the call
     alerted |-> FALSE,      \* alert() was shown
     logged |-> {},          \* names of the errors caught and logged
     saveError |-> "none",   \* what a storage write in saveInterviewSession threw
     found |-> Null,         \* the session loadInterviewSession got hold of
     source |-> "none",      \* the key it came from
     expired |-> FALSE,      \* the expiry branch was taken
     upgraded |-> FALSE]     \* the upgrade branch was taken

\* { ...session, lastUpdated: Date.now(), version: '2.0' }
StampBeforeSpread(session, t) ==
    session @@ [lastUpdated |-> t, version |-> CURRENT_VERSION]
SessionWithTimestamp(session, t) ==
    [lastUpdated |-> t, version |-> CURRENT_VERSION] @@ session

SaveBackupFirst(ss, ls, session, t, env) ==
    LET text == JSONstringify(Obj(SessionWithTimestamp(session, t)))
        w1 == setItem(ls, BACKUP_KEY, text, env.lsFull, env)
        w2 == setItem(ss, SESSION_KEY, text, env.ssFull, env)
        error == IF Threw(w1) THEN w1.exc ELSE w2.exc
    IN  [Quiet(IF Threw(w1) THEN ss ELSE w2.store, w1.store) EXCEPT
            !.alerted = error.isDOMException /\ error.code = QUOTA_EXCEEDED_ERR,
            !.logged = IF error = NoError THEN {} ELSE {error.name},
            !.saveError = error.name]
SaveAlertOnAnyError(ss, ls, session, t, env) ==
    LET text == JSONstringify(Obj(SessionWithTimestamp(session, t)))
        w1 == setItem(ss, SESSION_KEY, text, env.ssFull, env)
        w2 == setItem(ls, BACKUP_KEY, text, env.lsFull, env)
        error == IF Threw(w1) THEN w1.exc ELSE w2.exc
    IN  [Quiet(w1.store, IF Threw(w1) THEN ls ELSE w2.store) EXCEPT
            !.alerted = error # NoError,
            !.logged = IF error = NoError THEN {} ELSE {error.name},
            !.saveError = error.name]
SavePrimaryOnly(ss, ls, session, t, env) ==
    LET text == JSONstringify(Obj(SessionWithTimestamp(session, t)))
        w1 == setItem(ss, SESSION_KEY, text, env.ssFull, env)
        error == w1.exc
    IN  [Quiet(w1.store, ls) EXCEPT
            !.alerted = error.isDOMException /\ error.code = QUOTA_EXCEEDED_ERR,
            !.logged = IF error = NoError THEN {} ELSE {error.name},
            !.saveError = error.name]
SaveUnderScopedKeys(ss, ls, session, t, env) ==
    LET text == JSONstringify(Obj(SessionWithTimestamp(session, t)))
        w1 == setItem(ss, ScopedSessionKey(session.settings.owner), text,
                      env.ssFull, env)
        w2 == setItem(ls, ScopedBackupKey(session.settings.owner), text,
                      env.lsFull, env)
        error == IF Threw(w1) THEN w1.exc ELSE w2.exc
    IN  [Quiet(w1.store, IF Threw(w1) THEN ls ELSE w2.store) EXCEPT
            !.alerted = error.isDOMException /\ error.code = QUOTA_EXCEEDED_ERR,
            !.logged = IF error = NoError THEN {} ELSE {error.name},
            !.saveError = error.name]
SaveUnlessOverwritten(ss, ls, session, t, env) ==
    LET text == JSONstringify(Obj(SessionWithTimestamp(session, t)))
        w1 == setItem(ss, SESSION_KEY, text, env.ssFull, env)
        w2 == setItem(ls, BACKUP_KEY, text, env.lsFull, env)
        error == IF Threw(w1) THEN w1.exc ELSE w2.exc
    IN  IF Present(ls[BACKUP_KEY]) /\ ls[BACKUP_KEY] # ss[SESSION_KEY]
        THEN Quiet(ss, ls)
        ELSE [Quiet(w1.store, IF Threw(w1) THEN ls ELSE w2.store) EXCEPT
                !.alerted = error.isDOMException /\ error.code = QUOTA_EXCEEDED_ERR,
                !.logged = IF error = NoError THEN {} ELSE {error.name},
                !.saveError = error.name]
saveInterviewSession(ss, ls, session, t, env) ==
    LET text == JSONstringify(Obj(SessionWithTimestamp(session, t)))
        w1 == setItem(ss, SESSION_KEY, text, env.ssFull, env)
        w2 == setItem(ls, BACKUP_KEY, text, env.lsFull, env)
        \* the first write that throws ends the try block
        error == IF Threw(w1) THEN w1.exc ELSE w2.exc
    IN  [Quiet(w1.store, IF Threw(w1) THEN ls ELSE w2.store) EXCEPT
            !.alerted = error.isDOMException /\ error.code = QUOTA_EXCEEDED_ERR,
            !.logged = IF error = NoError THEN {} ELSE {error.name},
            !.saveError = error.name]

ClearPrimaryOnly(ss, ls, env) ==
    LET r1 == removeItem(ss, SESSION_KEY, env)
    IN  [Quiet(r1.store, ls) EXCEPT
            !.logged = IF r1.exc = NoError THEN {} ELSE {r1.exc.name}]
ClearBackupOnly(ss, ls, env) ==
    LET r2 == removeItem(ls, BACKUP_KEY, env)
    IN  [Quiet(ss, r2.store) EXCEPT
            !.logged = IF r2.exc = NoError THEN {} ELSE {r2.exc.name}]
ClearWithoutCatch(ss, ls, env) ==
    LET r1 == removeItem(ss, SESSION_KEY, env)
        r2 == removeItem(ls, BACKUP_KEY, env)
        error == IF Threw(r1) THEN r1.exc ELSE r2.exc
    IN  [Quiet(r1.store, IF Threw(r1) THEN ls ELSE r2.store) EXCEPT !.exc = error]
clearInterviewSession(ss, ls, env) ==
    LET r1 == removeItem(ss, SESSION_KEY, env)
        r2 == removeItem(ls, BACKUP_KEY, env)
        error == IF Threw(r1) THEN r1.exc ELSE r2.exc
    IN  [Quiet(r1.store, IF Threw(r1) THEN ls ELSE r2.store) EXCEPT
            !.logged = IF error = NoError THEN {} ELSE {error.name}]

\* let saved = sessionStorage.getItem(SESSION_KEY);
\* let session = saved ? JSON.parse(saved) : null;
ReadPrimary(ss, env) ==
    LET g == getItem(ss, SESSION_KEY, env)
    IN  IF Threw(g) THEN [exc |-> g.exc, val |-> Null]
        ELSE IF Present(g.val) THEN JSONparse(g.val)
        ELSE [exc |-> NoError, val |-> Null]

\* The body of if (!session): read and parse the backup and, if that gives a
\* session, write it back under the primary key.
RestoreWithoutWriteBack(ss, ls, env) ==
    LET g == getItem(ls, BACKUP_KEY, env)
        p == IF Present(g.val) THEN JSONparse(g.val) ELSE [exc |-> NoError, val |-> Null]
    IN  IF Threw(g) THEN [exc |-> g.exc, val |-> Null, ss |-> ss]
        ELSE [exc |-> p.exc, val |-> p.val, ss |-> ss]
RestoreFromBackup(ss, ls, env) ==
    LET g == getItem(ls, BACKUP_KEY, env)
        p == IF Present(g.val) THEN JSONparse(g.val) ELSE [exc |-> NoError, val |-> Null]
        w == setItem(ss, SESSION_KEY, JSONstringify(p.val), env.ssFull, env)
    IN  IF Threw(g) THEN [exc |-> g.exc, val |-> Null, ss |-> ss]
        ELSE IF Threw(p) \/ ~Truthy(p.val) THEN [exc |-> p.exc, val |-> p.val, ss |-> ss]
        ELSE [exc |-> w.exc, val |-> p.val, ss |-> w.store]

\* The catch block of loadInterviewSession.
LoadCatchWithoutClear(ss, ls, env, error) ==
    [Quiet(ss, ls) EXCEPT !.ret = Null, !.logged = {error.name}]
LoadCatchKeepsBackup(ss, ls, env, error) ==
    LET c == ClearPrimaryOnly(ss, ls, env)
    IN  [c EXCEPT !.ret = Null, !.logged = c.logged \cup {error.name}]
LoadCatch(ss, ls, env, error) ==
    LET c == clearInterviewSession(ss, ls, env)
    IN  [c EXCEPT !.ret = Null, !.logged = c.logged \cup {error.name}]

\* t is the clock when the call starts; d is the time that passes between
\* the Date.now() of upgradeSessionFormat and that of saveInterviewSession.
LoadRefreshes(ss, ls, t, d, env) ==
    LET p == ReadPrimary(ss, env)
        b == IF Threw(p) \/ Truthy(p.val)
             THEN [exc |-> p.exc, val |-> p.val, ss |-> ss]
             ELSE RestoreFromBackup(ss, ls, env)
        session == b.val
        source == IF Truthy(p.val) THEN "primary"
                  ELSE IF Truthy(session) THEN "backup" ELSE "none"
        Tag(r) == [r EXCEPT !.found = session, !.source = source]
        cleared == clearInterviewSession(b.ss, ls, env)
        upgradedSession == upgradeSessionFormat(session.f, t)
        saved == saveInterviewSession(b.ss, ls, upgradedSession, t + d, env)
        refreshed == saveInterviewSession(b.ss, ls, session.f, t, env)
    IN  IF Threw(b) THEN Tag(LoadCatch(b.ss, ls, env, b.exc))
        ELSE IF ~Truthy(session) THEN [Quiet(ss, ls) EXCEPT !.ret = Null]
        ELSE IF Expired(session.f, t) THEN
            Tag([cleared EXCEPT !.ret = Null, !.expired = TRUE])
        ELSE IF NeedsUpgrade(session.f) THEN
            Tag([saved EXCEPT !.ret = Obj(upgradedSession), !.upgraded = TRUE])
        ELSE Tag([refreshed EXCEPT !.ret = session])
LoadUpgradeFirst(ss, ls, t, d, env) ==
    LET p == ReadPrimary(ss, env)
        b == IF Threw(p) \/ Truthy(p.val)
             THEN [exc |-> p.exc, val |-> p.val, ss |-> ss]
             ELSE RestoreFromBackup(ss, ls, env)
        session == b.val
        source == IF Truthy(p.val) THEN "primary"
                  ELSE IF Truthy(session) THEN "backup" ELSE "none"
        Tag(r) == [r EXCEPT !.found = session, !.source = source]
        upgradedSession == upgradeSessionFormat(session.f, t)
        saved == saveInterviewSession(b.ss, ls, upgradedSession, t + d, env)
        cleared == clearInterviewSession(b.ss, ls, env)
    IN  IF Threw(b) THEN Tag(LoadCatch(b.ss, ls, env, b.exc))
        ELSE IF ~Truthy(session) THEN [Quiet(ss, ls) EXCEPT !.ret = Null]
        ELSE IF NeedsUpgrade(session.f) THEN
            Tag([saved EXCEPT !.ret = Obj(upgradedSession), !.upgraded = TRUE])
        ELSE IF Expired(session.f, t) THEN
            Tag([cleared EXCEPT !.ret = Null, !.expired = TRUE])
        ELSE Tag([Quiet(b.ss, ls) EXCEPT !.ret = session])
loadInterviewSession(ss, ls, t, d, env) ==
    LET p == ReadPrimary(ss, env)
        b == IF Threw(p) \/ Truthy(p.val)
             THEN [exc |-> p.exc, val |-> p.val, ss |-> ss]
             ELSE RestoreFromBackup(ss, ls, env)
        session == b.val
        source == IF Truthy(p.val) THEN "primary"
                  ELSE IF Truthy(session) THEN "backup" ELSE "none"
        Tag(r) == [r EXCEPT !.found = session, !.source = source]
        cleared == clearInterviewSession(b.ss, ls, env)
        upgradedSession == upgradeSessionFormat(session.f, t)
        saved == saveInterviewSession(b.ss, ls, upgradedSession, t + d, env)
    IN  IF Threw(b) THEN Tag(LoadCatch(b.ss, ls, env, b.exc))
        ELSE IF ~Truthy(session) THEN [Quiet(ss, ls) EXCEPT !.ret = Null]
        ELSE IF Expired(session.f, t) THEN
            IF Threw(cleared)
            THEN Tag(LoadCatch(cleared.ss, cleared.ls, env, cleared.exc))
            ELSE Tag([cleared EXCEPT !.ret = Null, !.expired = TRUE])
        ELSE IF NeedsUpgrade(session.f) THEN
            IF Threw(saved)
            THEN Tag(LoadCatch(saved.ss, saved.ls, env, saved.exc))
            ELSE Tag([saved EXCEPT !.ret = Obj(upgradedSession), !.upgraded = TRUE])
        ELSE Tag([Quiet(b.ss, ls) EXCEPT !.ret = session])

RecoverUpgraded(ss, ls, env) ==
    LET g == getItem(ls, BACKUP_KEY, env)
        p == JSONparse(g.val)
        session == IF IsObj(p.val) /\ NeedsUpgrade(p.val.f)
                   THEN Obj(upgradeSessionFormat(p.val.f, 0))
                   ELSE p.val
        w == setItem(ss, SESSION_KEY, JSONstringify(session), env.ssFull, env)
        error == IF Threw(g) THEN g.exc
                 ELSE IF ~Present(g.val) THEN NoError
                 ELSE IF Threw(p) THEN p.exc
                 ELSE w.exc
    IN  IF error # NoError
        THEN [Quiet(ss, ls) EXCEPT !.ret = Null, !.logged = {error.name}]
        ELSE IF ~Present(g.val) THEN [Quiet(ss, ls) EXCEPT !.ret = Null]
        ELSE [Quiet(w.store, ls) EXCEPT !.ret = session]
RecoverClearsCorrupt(ss, ls, env) ==
    LET g == getItem(ls, BACKUP_KEY, env)
        p == JSONparse(g.val)
        w == setItem(ss, SESSION_KEY, g.val, env.ssFull, env)
        error == IF Threw(g) THEN g.exc
                 ELSE IF ~Present(g.val) THEN NoError
                 ELSE IF Threw(p) THEN p.exc
                 ELSE w.exc
        c == clearInterviewSession(ss, ls, env)
    IN  IF error # NoError
        THEN [c EXCEPT !.ret = Null, !.logged = c.logged \cup {error.name}]
        ELSE IF ~Present(g.val) THEN [Quiet(ss, ls) EXCEPT !.ret = Null]
        ELSE [Quiet(w.store, ls) EXCEPT !.ret = p.val]
recoverSession(ss, ls, env) ==
    LET g == getItem(ls, BACKUP_KEY, env)
        p == JSONparse(g.val)
        w == setItem(ss, SESSION_KEY, g.val, env.ssFull, env)
        error == IF Threw(g) THEN g.exc
                 ELSE IF ~Present(g.val) THEN NoError
                 ELSE IF Threw(p) THEN p.exc
                 ELSE w.exc
    IN  IF error # NoError
        THEN [Quiet(ss, ls) EXCEPT !.ret = Null, !.logged = {error.name}]
        ELSE IF ~Present(g.val) THEN [Quiet(ss, ls) EXCEPT !.ret = Null]
        ELSE [Quiet(w.store, ls) EXCEPT !.ret = p.val]

\* Numbers as getSessionStats computes them.  A difference is a number or,
\* with an operand undefined, NaN; a quotient is kept as a fraction in lowest
\* terms (den = 0: Infinity, or NaN for 0 / 0).
Number(n) == <<n>>
NaN == <<>>

RECURSIVE GCD(_, _)
GCD(a, b) == IF b = 0 THEN a ELSE GCD(b, a % b)
Fraction(a, b) ==
    LET g == GCD(a, b)
    IN  IF g = 0 THEN [num |-> 0, den |-> 0] ELSE [num |-> a \div g, den |-> b \div g]
\* a / b
Divide(a, b) == Fraction(a, b)
\* x * k
Times(x, k) == Fraction(x.num * k, x.den)

NoSessionStats ==
    [hasActiveSession |-> FALSE, sessionAge |-> Number(0), questionCount |-> 0,
     completionRate |-> Fraction(0, 1)]

\* Lines 447-457: the statistics of the session that was loaded, t being the
\* clock.  Reading a property of an undefined questions or settings throws.
StatsAsFraction(session, t) ==
    LET questionCount == Len(session.questions)
    IN  IF ~Has(session, "questions") \/ ~Has(session, "settings")
        THEN [exc |-> TypeError, val |-> Undefined]
        ELSE [exc |-> NoError,
              val |-> Obj([hasActiveSession |-> TRUE,
                           sessionAge |-> IF Has(session, "startTime")
                                          THEN Number(t - session.startTime) ELSE NaN,
                           questionCount |-> questionCount,
                           completionRate |->
                                Divide(questionCount, session.settings.questionCount)])]
StatsOf(session, t) ==
    LET questionCount == Len(session.questions)
    IN  IF ~Has(session, "questions") \/ ~Has(session, "settings")
        THEN [exc |-> TypeError, val |-> Undefined]
        ELSE [exc |-> NoError,
              val |-> Obj([hasActiveSession |-> TRUE,
                           sessionAge |-> IF Has(session, "startTime")
                                          THEN Number(t - session.startTime) ELSE NaN,
                           questionCount |-> questionCount,
                           completionRate |->
                                Times(Divide(questionCount,
                                             session.settings.questionCount), 100)])]

\* getSessionStats has no try block: what StatsOf throws escapes it.  t and d
\* are those of loadInterviewSession.
StatsAfterLoad(l, t, d) ==
    LET session == l.ret
        stats == StatsOf(session.f, IF l.upgraded THEN t + d ELSE t)
    IN  IF ~Truthy(session) THEN [l EXCEPT !.ret = Obj(NoSessionStats)]
        ELSE [l EXCEPT !.ret = stats.val, !.exc = stats.exc]
getSessionStats(ss, ls, t, d, env) ==
    StatsAfterLoad(loadInterviewSession(ss, ls, t, d, env), t, d)

----------------------------------------------------------------------------
(* Auto-save.  The page's timer table gives every interval timer an id;    *)
(* the callback of a timer runs only while the id is in the table, and     *)
(* clearInterval of an id that is not there does nothing.                  *)

TimerIds == 1..MaxTimers
NoTimers == [id \in TimerIds |-> [state |-> "unused", session |-> Undefined]]

\* setInterval(() => saveInterviewSession(session), interval): the timer
\* gets the next id and keeps the session the callback closes over.
setInterval(tm, session) ==
    LET id == CHOOSE i \in TimerIds :
                /\ tm[i].state = "unused"
                /\ \A j \in TimerIds : tm[j].state = "unused" => i <= j
    IN  [id |-> id,
         timers |-> [tm EXCEPT ![id] = [state |-> "active", session |-> session]]]

clearInterval(tm, id) ==
    IF id \in TimerIds /\ tm[id].state = "active"
    THEN [tm EXCEPT ![id].state = "cleared"]
    ELSE tm

\* The callback of the timer: () => { saveInterviewSession(session); } with
\* the session that enableAutoSave was given.
AutoSaveStoredRecord(ss, ls, session, t, env) ==
    LET stored == ReadPrimary(ss, env).val
    IN  IF IsObj(stored)
        THEN saveInterviewSession(ss, ls, stored.f, t, env)
        ELSE Quiet(ss, ls)
AutoSaveCallback(ss, ls, session, t, env) ==
    saveInterviewSession(ss, ls, session, t, env)

\* enableAutoSave returns the function that clears the timer it has set;
\* autoSaveInterval is the id that function closes over.
enableAutoSave(tm, session) == setInterval(tm, session)

\* The latest timer that was set.
LatestTimer(tm) ==
    CHOOSE i \in TimerIds :
        /\ tm[i].state # "unused"
        /\ \A j \in TimerIds : tm[j].state # "unused" => j <= i

\* The function enableAutoSave returned, for its timer autoSaveInterval.
CleanupOfLatest(tm, autoSaveInterval) == clearInterval(tm, LatestTimer(tm))
Cleanup(tm, autoSaveInterval) == clearInterval(tm, autoSaveInterval)

----------------------------------------------------------------------------
(* Identity handling of useAuth.                                           *)

InterviewKeys(userId) ==
    {ScopedSessionKey(userId), ScopedBackupKey(userId), SESSION_KEY, BACKUP_KEY}

\* Each key is removed from both areas inside its own try/catch; the only
\* removal that throws is one on storage the origin is denied.
ClearScopedKeysOnly(ss, ls, userId, env) ==
    LET keys == {ScopedSessionKey(userId), ScopedBackupKey(userId)}
    IN  IF env.blocked THEN [ss |-> ss, ls |-> ls]
        ELSE [ss |-> [k \in StorageKeys |-> IF k \in keys THEN Absent ELSE ss[k]],
              ls |-> [k \in StorageKeys |-> IF k \in keys THEN Absent ELSE ls[k]]]
clearUserInterviewData(ss, ls, userId, env) ==
    LET keys == InterviewKeys(userId)
    IN  IF env.blocked THEN [ss |-> ss, ls |-> ls]
        ELSE [ss |-> [k \in StorageKeys |-> IF k \in keys THEN Absent ELSE ss[k]],
              ls |-> [k \in StorageKeys |-> IF k \in keys THEN Absent ELSE ls[k]]]

\* The SIGNED_IN branch of the onAuthStateChange callback, for session.user.id = id.
\* exc is the exception that ends the callback before setSession/setUser.
OnSignedInAlwaysClears(ss, ls, id, env) ==
    LET g == getItem(ls, USER_ID_KEY, env)
        previousUserId == g.val
        c == IF Present(previousUserId)
             THEN clearUserInterviewData(ss, ls, previousUserId.s, env)
             ELSE [ss |-> ss, ls |-> ls]
        w == setItem(c.ls, USER_ID_KEY, Raw(id), env.lsFull, env)
    IN  IF Threw(g) THEN [Quiet(ss, ls) EXCEPT !.exc = g.exc]
        ELSE [Quiet(c.ss, w.store) EXCEPT !.exc = w.exc]
OnSignedIn(ss, ls, id, env) ==
    LET g == getItem(ls, USER_ID_KEY, env)
        previousUserId == g.val
        c == IF Present(previousUserId) /\ previousUserId # Raw(id)
             THEN clearUserInterviewData(ss, ls, previousUserId.s, env)
             ELSE [ss |-> ss, ls |-> ls]
        w == setItem(c.ls, USER_ID_KEY, Raw(id), env.lsFull, env)
    IN  IF Threw(g) THEN [Quiet(ss, ls) EXCEPT !.exc = g.exc]
        ELSE [Quiet(c.ss, w.store) EXCEPT !.exc = w.exc]

\* The SIGNED_OUT branch of the onAuthStateChange callback.
OnSignedOut(ss, ls, env) ==
    LET g == getItem(ls, USER_ID_KEY, env)
        previousUserId == g.val
        c == IF Present(previousUserId)
             THEN clearUserInterviewData(ss, ls, previousUserId.s, env)
             ELSE [ss |-> ss, ls |-> ls]
        r == removeItem(c.ls, USER_ID_KEY, env)
    IN  IF Threw(g) THEN [Quiet(ss, ls) EXCEPT !.exc = g.exc]
        ELSE [Quiet(c.ss, r.store) EXCEPT !.exc = r.exc]

\* checkInterviewState(userId): whether the scoped session key of the tab or
\* the scoped backup key holds a non-empty text; false for no userId and when
\* a read throws.
checkInterviewState(ss, ls, userId, env) ==
    LET g1 == getItem(ss, ScopedSessionKey(userId), env)
        g2 == getItem(ls, ScopedBackupKey(userId), env)
    IN  IF userId = NoUser THEN FALSE
        ELSE IF Threw(g1) THEN FALSE
        ELSE IF Present(g1.val) THEN TRUE
        ELSE IF Threw(g2) THEN FALSE
        ELSE Present(g2.val)

----------------------------------------------------------------------------
(* AppContent.                                                             *)
(* app holds the useState values and what the save effect returned at its  *)
(* last run: cleanup is the id of the timer its cleanup function clears, 0 *)
(* if it returned none.  React runs the cleanup of an effect and then the  *)
(* effect again after every committed change of its dependencies; each     *)
(* handler below is taken together with the effects its state change runs. *)

Screens == {"home", "setup", "interview", "result"}

\* The useState initial values.
InitialAppContent ==
    [mounted |-> TRUE,
     currentScreen |-> "home",
     interviewSettings |-> Null,
     interviewQuestions |-> <<>>,
     sessionRecovered |-> FALSE,
     cleanup |-> 0]
\* The page before AppContent is mounted.
NotMounted == [InitialAppContent EXCEPT !.mounted = FALSE]

\* if (currentScreen === 'interview' && interviewSettings && user)
InInterview(a, u) ==
    a.currentScreen = "interview" /\ Truthy(a.interviewSettings) /\ u # NoUser

\* The load effect, run with user u while loading is l: what the state is
\* once its setState calls are rendered.
LoadEffect(a, u, l, ss, ls, t, env) ==
    LET r == loadInterviewSession(ss, ls, t, 0, env)
        savedSession == r.ret
    IN  IF u # NoUser /\ ~l
        THEN [r |-> r,
              app |-> IF Truthy(savedSession)
                      THEN [a EXCEPT !.currentScreen = "interview",
                                     !.interviewSettings = Obj(savedSession.f.settings),
                                     !.interviewQuestions = savedSession.f.questions,
                                     !.sessionRecovered = TRUE]
                      ELSE a]
        ELSE [r |-> Quiet(ss, ls), app |-> a]

\* The save effect: the cleanup of its previous run, then its body.
SaveEffectWithoutCleanup(a, u, ss, ls, tm, t, env) ==
    LET session == SessionOf(a.interviewSettings.f, a.interviewQuestions, t)
        r == saveInterviewSession(ss, ls, session, t, env)
        e == enableAutoSave(tm, Obj(session))
    IN  IF InInterview(a, u)
        THEN [app |-> [a EXCEPT !.cleanup = e.id], timers |-> e.timers,
              saved |-> Obj(session), r |-> r]
        ELSE [app |-> [a EXCEPT !.cleanup = 0], timers |-> tm,
              saved |-> Undefined, r |-> Quiet(ss, ls)]
SaveEffect(a, u, ss, ls, tm, t, env) ==
    LET cleaned == IF a.cleanup = 0 THEN tm ELSE Cleanup(tm, a.cleanup)
        session == SessionOf(a.interviewSettings.f, a.interviewQuestions, t)
        r == saveInterviewSession(ss, ls, session, t, env)
        e == enableAutoSave(cleaned, Obj(session))
    IN  IF InInterview(a, u)
        THEN [app |-> [a EXCEPT !.cleanup = e.id], timers |-> e.timers,
              saved |-> Obj(session), r |-> r]
        ELSE [app |-> [a EXCEPT !.cleanup = 0], timers |-> cleaned,
              saved |-> Undefined, r |-> Quiet(ss, ls)]

\* handleVisibilityChange with document.hidden.
handleVisibilityChange(a, u, ss, ls, t, env) ==
    LET session == SessionOf(a.interviewSettings.f, a.interviewQuestions, t)
    IN  IF InInterview(a, u)
        THEN [saved |-> Obj(session),
              r |-> saveInterviewSession(ss, ls, session, t, env)]
        ELSE [saved |-> Undefined, r |-> Quiet(ss, ls)]

\* The setState calls of the handlers.
handleStartInterview(a) == [a EXCEPT !.currentScreen = "setup"]
handleBackToHome(a) ==
    [a EXCEPT !.currentScreen = "home", !.interviewSettings = Null,
              !.interviewQuestions = <<>>, !.sessionRecovered = FALSE]
handleStartInterviewWithSettings(a, settings) ==
    [a EXCEPT !.interviewSettings = Obj(settings), !.interviewQuestions = <<>>,
              !.currentScreen = "interview", !.sessionRecovered = FALSE]
handleInterviewComplete(a, questions) ==
    [a EXCEPT !.interviewQuestions = questions, !.currentScreen = "result"]
handleNewInterview(a) == handleBackToHome(a)

----------------------------------------------------------------------------
(* The state machine *)

\* What a key holds: "absent", "raw" (text that is no JSON), "null" (the JSON
\* text of a falsy value) or "record".
Kind(text) ==
    IF text.kind = "json"
    THEN IF IsObj(text.v) THEN "record" ELSE "null"
    ELSE text.kind

\* What `last` keeps of a call: the call, the clock and the kind of content
\* of the two keys when it started, and its outcome but for the storage areas.
Report(op, env, arg, r) ==
    [op |-> op, env |-> env, arg |-> arg, at |-> now,
     before |-> [primary |-> Kind(sessionStorage[SESSION_KEY]),
                 backup |-> Kind(localStorage[BACKUP_KEY])],
     ret |-> r.ret, exc |-> r.exc, alerted |-> r.alerted, logged |-> r.logged,
     saveError |-> r.saveError, found |-> r.found, source |-> r.source,
     expired |-> r.expired, upgraded |-> r.upgraded]
Idle(op) == Report(op, NoFailure, Undefined, Quiet(sessionStorage, localStorage))

EmptyStorage == [k \in StorageKeys |-> Absent]

\* What an earlier visit can have left under the primary or the backup key:
\* records of older releases, records of this one, and damaged text.
LeftoverRecords ==
    LET base == [settings |-> Settings(Earlier), questions |-> <<>>]
    IN  { base,
          [startTime |-> Epoch - SESSION_TIMEOUT] @@ base,
          [version |-> "1.0", startTime |-> Epoch - SESSION_TIMEOUT - 1,
           lastUpdated |-> Epoch - SESSION_TIMEOUT,
           coveredTopics |-> <<"motivation">>] @@ base,
          [version |-> "10.0", startTime |-> Epoch, lastUpdated |-> Epoch] @@ base,
          SessionWithTimestamp(RichSession(Earlier, Epoch - SESSION_TIMEOUT),
                               Epoch - SESSION_TIMEOUT) }
LeftoverTexts ==
    {Absent, Raw("{\"settings\":"), JsonText(Null)}
        \cup {JsonText(Obj(o)) : o \in LeftoverRecords}

----------------------------------------------------------------------------
(* useSpeechRecognition: the hook behind the voice input button.  h is the
   hook's state: the useState values transcript (the number of final phrases
   appended), isListening, error and permissionStatus, the recognition object
   recognitionRef holds (by the state the browser has it in), the value of
   isListening the handlers of that object have closed over, and the timer
   timeoutRef holds.  The browser supports speech recognition. *)

RecognitionStates == {"null", "starting", "running", "stopping", "ended"}
SpeechErrors == {"no-speech", "audio-capture", "not-allowed", "network"}

NotListening ==
    [transcript |-> 0, isListening |-> FALSE, error |-> "null",
     permissionStatus |-> "unknown", recognitionRef |-> "null",
     closureIsListening |-> FALSE, timeoutRef |-> "null"]

\* clearTimeout(timeoutRef.current): a pending timer will not fire.
ClearInactivityTimeout(h) ==
    IF h.timeoutRef = "pending" THEN [h EXCEPT !.timeoutRef = "cleared"] ELSE h

\* recognition.stop(): a started recognition stops and will raise onend.
RecognitionStop(h) ==
    IF h.recognitionRef \in {"starting", "running"}
    THEN [h EXCEPT !.recognitionRef = "stopping"]
    ELSE h

requestPermission(h, granted) ==
    IF granted
    THEN [h EXCEPT !.permissionStatus = "granted", !.error = "null"]
    ELSE [h EXCEPT !.permissionStatus = "denied", !.error = "permission"]

stopListening(h) ==
    LET stopped == IF h.recognitionRef # "null" THEN RecognitionStop(h) ELSE h
    IN  ClearInactivityTimeout([stopped EXCEPT !.isListening = FALSE])

\* startListening as the render with the state h created it: the handlers it
\* gives the new recognition object see the isListening of that render.
startListening(h, granted) ==
    IF h.isListening THEN stopListening(h)
    ELSE LET asked == requestPermission([h EXCEPT !.error = "null"], granted)
         IN  IF ~granted THEN asked
             ELSE [asked EXCEPT !.recognitionRef = "starting",
                                !.closureIsListening = h.isListening]

onstart(h) ==
    [h EXCEPT !.recognitionRef = "running", !.isListening = TRUE,
              !.error = "null"]

\* onresult with a final or an interim result: the inactivity timer is set
\* anew.
onresult(h, final) ==
    LET heard == IF final /\ h.transcript < MaxPhrases
                 THEN [h EXCEPT !.transcript = @ + 1] ELSE h
    IN  [ClearInactivityTimeout(heard) EXCEPT !.timeoutRef = "pending"]

\* The callback of the timer onresult sets, run 5 seconds after the result.
InactivityTimeout(h) ==
    LET fired == [h EXCEPT !.timeoutRef = "fired"]
    IN  IF h.recognitionRef # "null" /\ h.closureIsListening
        THEN RecognitionStop(fired)
        ELSE fired

\* onerror: the browser ends the recognition after the error.
onerror(h, code) ==
    [h EXCEPT !.isListening = FALSE, !.error = code,
              !.permissionStatus = IF code = "not-allowed" THEN "denied" ELSE @,
              !.recognitionRef = "stopping"]

onend(h) ==
    ClearInactivityTimeout([h EXCEPT !.isListening = FALSE,
                                     !.recognitionRef = "ended"])

clearTranscript(h) == [h EXCEPT !.transcript = 0, !.error = "null"]

\* The visibilitychange listener of the hook, with the page hidden.
stopWhenHidden(h) == IF h.isListening THEN stopListening(h) ELSE h

----------------------------------------------------------------------------
\* The session store with a user signed in: the two keys hold whatever an
\* earlier visit left.
Init ==
    /\ sessionStorage \in
        {[EmptyStorage EXCEPT ![SESSION_KEY] = x] : x \in LeftoverTexts}
    /\ localStorage \in
        {[EmptyStorage EXCEPT ![BACKUP_KEY] = x, ![USER_ID_KEY] = Raw("A")] :
            x \in LeftoverTexts}
    /\ now = Epoch
    /\ providerUser = "A"
    /\ user = "A"
    /\ loading = FALSE
    /\ getSessionPending = FALSE
    /\ timers = NoTimers
    /\ cancelled = {}
    /\ otherTab = EmptyStorage
    /\ app = NotMounted
    /\ speech = NotListening
    /\ last = Idle("init")

\* The same, and what else a key can hold that parses to an object: a record
\* with neither settings nor questions.
PartialRecord == [startTime |-> Epoch]
InitStats ==
    /\ sessionStorage \in
        {[EmptyStorage EXCEPT ![SESSION_KEY] = x] :
            x \in LeftoverTexts \cup {JsonText(Obj(PartialRecord))}}
    /\ localStorage \in
        {[EmptyStorage EXCEPT ![BACKUP_KEY] = x, ![USER_ID_KEY] = Raw("A")] :
            x \in LeftoverTexts \cup {JsonText(Obj(PartialRecord))}}
    /\ now = Epoch
    /\ providerUser = "A"
    /\ user = "A"
    /\ loading = FALSE
    /\ getSessionPending = FALSE
    /\ timers = NoTimers
    /\ cancelled = {}
    /\ otherTab = EmptyStorage
    /\ app = NotMounted
    /\ speech = NotListening
    /\ last = Idle("init")

\* The application is opened with no session data stored; the provider may
\* hold a persisted identity, and the marker of the last identity may be there.
InitAuth ==
    /\ sessionStorage = EmptyStorage
    /\ localStorage \in
        {[EmptyStorage EXCEPT ![USER_ID_KEY] = m] :
            m \in {Absent} \cup {Raw(u) : u \in Users}}
    /\ now = Epoch
    /\ providerUser \in {NoUser} \cup Users
    /\ user = NoUser
    /\ loading = TRUE
    /\ getSessionPending = TRUE
    /\ timers = NoTimers
    /\ cancelled = {}
    /\ otherTab = EmptyStorage
    /\ app = NotMounted
    /\ speech = NotListening
    /\ last = Idle("init")

\* Time passes.
Tick ==
    /\ \E t \in Instants : t > now /\ now' = t
    /\ last' = Idle("tick")
    /\ UNCHANGED <<sessionStorage, localStorage, providerUser, user, loading,
                   getSessionPending>>
    /\ UNCHANGED autoSaveVars
    /\ UNCHANGED appVars

\* AppContent (or any caller) saves a session of the signed-in user.
Save ==
    /\ user # NoUser
    /\ \E session \in SaveInputs(user, now), env \in Envs :
        \E r \in {saveInterviewSession(sessionStorage, localStorage, session, now, env)} :
            /\ sessionStorage' = r.ss
            /\ localStorage' = r.ls
            /\ last' = Report("save", env, Obj(session), r)
    /\ UNCHANGED <<now, providerUser, user, loading, getSessionPending>>
    /\ UNCHANGED autoSaveVars
    /\ UNCHANGED appVars

Load ==
    /\ \E env \in Envs, d \in 0..1 :
        \E r \in {loadInterviewSession(sessionStorage, localStorage, now, d, env)} :
        LET end == IF r.upgraded THEN now + d ELSE now
        IN  /\ end \in Instants
            /\ sessionStorage' = r.ss
            /\ localStorage' = r.ls
            /\ now' = end
            /\ last' = Report("load", env, Undefined, r)
    /\ UNCHANGED <<providerUser, user, loading, getSessionPending>>
    /\ UNCHANGED autoSaveVars
    /\ UNCHANGED appVars

Clear ==
    /\ \E env \in Envs :
        \E r \in {clearInterviewSession(sessionStorage, localStorage, env)} :
            /\ sessionStorage' = r.ss
            /\ localStorage' = r.ls
            /\ last' = Report("clear", env, Undefined, r)
    /\ UNCHANGED <<now, providerUser, user, loading, getSessionPending>>
    /\ UNCHANGED autoSaveVars
    /\ UNCHANGED appVars

Recover ==
    /\ \E env \in Envs :
        \E r \in {recoverSession(sessionStorage, localStorage, env)} :
            /\ sessionStorage' = r.ss
            /\ localStorage' = r.ls
            /\ last' = Report("recover", env, Undefined, r)
    /\ UNCHANGED <<now, providerUser, user, loading, getSessionPending>>
    /\ UNCHANGED autoSaveVars
    /\ UNCHANGED appVars

Stats ==
    /\ \E env \in Envs, d \in 0..1 :
        \E r \in {getSessionStats(sessionStorage, localStorage, now, d, env)} :
        LET end == IF r.upgraded THEN now + d ELSE now
        IN  /\ end \in Instants
            /\ sessionStorage' = r.ss
            /\ localStorage' = r.ls
            /\ now' = end
            /\ last' = Report("stats", env, Undefined, r)
    /\ UNCHANGED <<providerUser, user, loading, getSessionPending>>
    /\ UNCHANGED autoSaveVars
    /\ UNCHANGED appVars

\* AppContent (or any caller) starts auto-saving a session of the signed-in
\* user.
EnableAutoSave ==
    /\ user # NoUser
    /\ \E id \in TimerIds : timers[id].state = "unused"
    /\ \E session \in SaveInputs(user, now) :
        timers' = enableAutoSave(timers, Obj(session)).timers
    /\ last' = Idle("enableAutoSave")
    /\ UNCHANGED appVars
    /\ UNCHANGED <<sessionStorage, localStorage, now, providerUser, user, loading,
                   getSessionPending, cancelled>>

\* The interval of a timer in the table has passed and its callback runs.
IntervalFires ==
    /\ \E id \in TimerIds, env \in Envs :
        /\ timers[id].state = "active"
        /\ \E r \in {AutoSaveCallback(sessionStorage, localStorage,
                                       timers[id].session.f, now, env)} :
               /\ sessionStorage' = r.ss
               /\ localStorage' = r.ls
               /\ last' = [timer |-> id] @@ Report("autoSave", env, timers[id].session, r)
    /\ UNCHANGED appVars
    /\ UNCHANGED <<now, providerUser, user, loading, getSessionPending, timers,
                   cancelled>>

\* A function that enableAutoSave returned is called, for the first time or
\* again.
CancelAutoSave ==
    /\ \E id \in TimerIds :
        /\ timers[id].state # "unused"
        /\ timers' = Cleanup(timers, id)
        /\ cancelled' = cancelled \cup {id}
        /\ last' = [timer |-> id] @@ Idle("cancel")
    /\ UNCHANGED appVars
    /\ UNCHANGED <<sessionStorage, localStorage, now, providerUser, user, loading,
                   getSessionPending>>

\* The page is loaded again in the same tab: useAuth mounts anew.
PageReload ==
    /\ user' = NoUser
    /\ loading' = TRUE
    /\ getSessionPending' = TRUE
    /\ timers' = NoTimers
    /\ cancelled' = {}
    /\ last' = Idle("reload")
    /\ UNCHANGED appVars
    /\ UNCHANGED <<sessionStorage, localStorage, now, providerUser>>

\* The tab is closed and the application opened in a new one.
TabReopen ==
    /\ sessionStorage' = EmptyStorage
    /\ user' = NoUser
    /\ loading' = TRUE
    /\ getSessionPending' = TRUE
    /\ timers' = NoTimers
    /\ cancelled' = {}
    /\ last' = Idle("reopen")
    /\ UNCHANGED appVars
    /\ UNCHANGED <<localStorage, now, providerUser>>

\* supabase.auth.getSession() of the mount effect resolves.
GetSession ==
    /\ getSessionPending
    /\ \E result \in {"session", "error", "invalidToken"}, env \in Envs :
        \E h \in {OnSignedOut(sessionStorage, localStorage, env)} :
            IF result = "invalidToken"
            THEN /\ sessionStorage' = h.ss
                 /\ localStorage' = h.ls
                 /\ providerUser' = NoUser
                 /\ user' = NoUser
                 /\ last' = Report("getSession", env, Undefined, h)
            ELSE /\ user' = IF result = "session" THEN providerUser ELSE user
                 /\ last' = Idle("getSession")
                 /\ UNCHANGED <<sessionStorage, localStorage, providerUser>>
    /\ loading' = FALSE
    /\ getSessionPending' = FALSE
    /\ UNCHANGED now
    /\ UNCHANGED autoSaveVars
    /\ UNCHANGED appVars

\* The provider establishes identity id and the callback handles SIGNED_IN.
SignedIn ==
    /\ \E id \in Users, env \in Envs :
        \E h \in {OnSignedIn(sessionStorage, localStorage, id, env)} :
            /\ providerUser' = id
            /\ sessionStorage' = h.ss
            /\ localStorage' = h.ls
            /\ user' = IF Threw(h) THEN user ELSE id
            /\ loading' = IF Threw(h) THEN loading ELSE FALSE
            /\ last' = Report("SIGNED_IN", env, Undefined, h)
    /\ UNCHANGED <<now, getSessionPending>>
    /\ UNCHANGED autoSaveVars
    /\ UNCHANGED appVars

\* The provider drops the identity and the callback handles SIGNED_OUT.
SignedOut ==
    /\ providerUser # NoUser
    /\ \E env \in Envs :
        \E h \in {OnSignedOut(sessionStorage, localStorage, env)} :
            /\ providerUser' = NoUser
            /\ sessionStorage' = h.ss
            /\ localStorage' = h.ls
            /\ user' = IF Threw(h) THEN user ELSE NoUser
            /\ loading' = IF Threw(h) THEN loading ELSE FALSE
            /\ last' = Report("SIGNED_OUT", env, Undefined, h)
    /\ UNCHANGED <<now, getSessionPending>>
    /\ UNCHANGED autoSaveVars
    /\ UNCHANGED appVars

\* authHelpers.signOut: the marker is read first, the provider signs out (the
\* callback handles SIGNED_OUT meanwhile), then the data of the marker's
\* identity is cleared.  It returns { error }; what the callback throws does
\* not reach it.
HelperSignOut ==
    /\ providerUser # NoUser
    /\ \E signOutFails \in BOOLEAN, env \in Envs :
        LET g == getItem(localStorage, USER_ID_KEY, env)
            h == OnSignedOut(sessionStorage, localStorage, env)
            c == IF Present(g.val)
                 THEN clearUserInterviewData(h.ss, h.ls, g.val.s, env)
                 ELSE [ss |-> h.ss, ls |-> h.ls]
        IN  IF Threw(g) \/ signOutFails
            THEN /\ last' = Report("signOut", env, Undefined,
                                   [Quiet(sessionStorage, localStorage) EXCEPT
                                        !.exc = g.exc,
                                        !.ret = IF Threw(g) THEN Undefined
                                                ELSE Obj([error |-> TRUE])])
                 /\ UNCHANGED <<sessionStorage, localStorage, providerUser, user, loading>>
            ELSE /\ providerUser' = NoUser
                 /\ sessionStorage' = c.ss
                 /\ localStorage' = c.ls
                 /\ user' = IF Threw(h) THEN user ELSE NoUser
                 /\ loading' = IF Threw(h) THEN loading ELSE FALSE
                 /\ last' = Report("signOut", env, Undefined,
                                   [h EXCEPT !.exc = NoError, !.ret = Obj([error |-> FALSE])])
    /\ UNCHANGED <<now, getSessionPending>>
    /\ UNCHANGED autoSaveVars
    /\ UNCHANGED appVars

\* The session store and the clock.
Next ==
    \/ Tick
    \/ Save
    \/ Load
    \/ Clear
    \/ Recover

Spec == Init /\ [][Next]_vars

\* Saving, clearing and asking for the statistics, over whatever the keys hold.
NextStats ==
    \/ Tick
    \/ Save
    \/ Clear
    \/ Stats

SpecStats == InitStats /\ [][NextStats]_vars

\* Auto-save over an empty store, the clock standing.
InitAutoSave ==
    /\ sessionStorage = EmptyStorage
    /\ localStorage = [EmptyStorage EXCEPT ![USER_ID_KEY] = Raw("A")]
    /\ now = Epoch
    /\ providerUser = "A"
    /\ user = "A"
    /\ loading = FALSE
    /\ getSessionPending = FALSE
    /\ timers = NoTimers
    /\ cancelled = {}
    /\ otherTab = EmptyStorage
    /\ app = NotMounted
    /\ speech = NotListening
    /\ last = Idle("init")

NextAutoSave ==
    \/ EnableAutoSave
    \/ IntervalFires
    \/ CancelAutoSave
    \/ Clear

SpecAutoSave == InitAutoSave /\ [][NextAutoSave]_vars

\* The session store together with the identity handling, the clock standing.
NextAuth ==
    \/ Save
    \/ Load
    \/ Clear
    \/ Recover
    \/ PageReload
    \/ TabReopen
    \/ GetSession
    \/ SignedIn
    \/ SignedOut
    \/ HelperSignOut

SpecAuth == InitAuth /\ [][NextAuth]_vars

\* The storage conditions the handlers of AppContent are taken under: their
\* calls go through (the ticks of the timers are taken under every one).
AppEnvs == {NoFailure}

\* The state change of a handler is rendered and the save effect runs on it:
\* a is the state the handler has set, u the user, ss and ls the storage areas
\* and r0 the outcome of the storage calls the handler made itself; tm and
\* done are the timers and the cancel functions called when it starts.
Commit(op, env, a, u, ss, ls, r0, tm, done) ==
    /\ InInterview(a, u) => \E id \in TimerIds : tm[id].state = "unused"
    /\ \E e \in {SaveEffect(a, u, ss, ls, tm, now, env)} :
        /\ app' = e.app
        /\ timers' = e.timers
        /\ sessionStorage' = e.r.ss
        /\ localStorage' = e.r.ls
        /\ last' = Report(op, env, e.saved, IF IsObj(e.saved) THEN e.r ELSE r0)
    /\ cancelled' = IF a.cleanup = 0 THEN done ELSE done \cup {a.cleanup}

\* The page is loaded with the user signed in: AppContent mounts, the load
\* effect runs and then the save effect on what it has set.
Mount ==
    /\ user # NoUser
    /\ ~loading
    /\ \E env \in AppEnvs :
        \E l \in {LoadEffect(InitialAppContent, user, loading,
                             sessionStorage, localStorage, now, env)} :
            Commit("mount", env, l.app, user, l.r.ss, l.r.ls, l.r, NoTimers, {})
    /\ UNCHANGED <<now, providerUser, user, loading, getSessionPending, otherTab, speech>>

StartInterview ==
    /\ app.mounted
    /\ user # NoUser
    /\ app.currentScreen = "home"
    /\ Commit("handleStartInterview", NoFailure, handleStartInterview(app), user,
              sessionStorage, localStorage, Quiet(sessionStorage, localStorage),
              timers, cancelled)
    /\ UNCHANGED <<now, providerUser, user, loading, getSessionPending, otherTab, speech>>

StartInterviewWithSettings ==
    /\ app.mounted
    /\ user # NoUser
    /\ app.currentScreen = "setup"
    /\ \E env \in AppEnvs :
        Commit("handleStartInterviewWithSettings", env,
               handleStartInterviewWithSettings(app, Settings(user)), user,
               sessionStorage, localStorage, Quiet(sessionStorage, localStorage),
               timers, cancelled)
    /\ UNCHANGED <<now, providerUser, user, loading, getSessionPending, otherTab, speech>>

\* onBack of the setup and the interview screen; with an interview that has
\* questions the user may decline the confirm dialog.
BackToHome ==
    /\ app.mounted
    /\ user # NoUser
    /\ app.currentScreen \in {"setup", "interview"}
    /\ \E confirmed \in BOOLEAN, env \in AppEnvs :
        IF app.currentScreen = "interview" /\ app.interviewQuestions # <<>>
           /\ ~confirmed
        THEN /\ last' = Idle("handleBackToHome")
             /\ UNCHANGED <<sessionStorage, localStorage, timers, cancelled, app>>
        ELSE \E c \in {clearInterviewSession(sessionStorage, localStorage, env)} :
                Commit("handleBackToHome", env, handleBackToHome(app), user,
                       c.ss, c.ls, c, timers, cancelled)
    /\ UNCHANGED <<now, providerUser, user, loading, getSessionPending, otherTab, speech>>

\* onComplete of the interview screen, with the questions it has gathered.
InterviewComplete ==
    /\ app.mounted
    /\ user # NoUser
    /\ app.currentScreen = "interview"
    /\ Truthy(app.interviewSettings)
    /\ \E questions \in {<<Question(now)>>}, env \in AppEnvs :
        \E c \in {clearInterviewSession(sessionStorage, localStorage, env)} :
            Commit("handleInterviewComplete", env,
                   handleInterviewComplete(app, questions), user,
                   c.ss, c.ls, c, timers, cancelled)
    /\ UNCHANGED <<now, providerUser, user, loading, getSessionPending, otherTab, speech>>

NewInterview ==
    /\ app.mounted
    /\ user # NoUser
    /\ app.currentScreen = "result"
    /\ \E env \in AppEnvs :
        \E c \in {clearInterviewSession(sessionStorage, localStorage, env)} :
            Commit("handleNewInterview", env, handleNewInterview(app), user,
                   c.ss, c.ls, c, timers, cancelled)
    /\ UNCHANGED <<now, providerUser, user, loading, getSessionPending, otherTab, speech>>

\* The tab becomes hidden.
VisibilityHidden ==
    /\ app.mounted
    /\ \E env \in AppEnvs :
        \E h \in {handleVisibilityChange(app, user, sessionStorage, localStorage,
                                          now, env)} :
            /\ sessionStorage' = h.r.ss
            /\ localStorage' = h.r.ls
            /\ last' = Report("handleVisibilityChange", env, h.saved, h.r)
    /\ UNCHANGED <<now, providerUser, user, loading, getSessionPending, timers,
                   cancelled, otherTab, app, speech>>

\* The callback of AppContent's useAuth handles SIGNED_OUT: user becomes null
\* and the effects run again.
UserSignedOut ==
    /\ app.mounted
    /\ user # NoUser
    /\ \E env \in AppEnvs :
        \E h \in {OnSignedOut(sessionStorage, localStorage, env)} :
            IF Threw(h)
            THEN /\ last' = Report("SIGNED_OUT", env, Undefined, h)
                 /\ UNCHANGED <<sessionStorage, localStorage, timers, cancelled,
                                app, user>>
            ELSE /\ user' = NoUser
                 /\ Commit("SIGNED_OUT", env, app, NoUser, h.ss, h.ls, h,
                           timers, cancelled)
    /\ providerUser' = NoUser
    /\ UNCHANGED <<now, loading, getSessionPending, otherTab, speech>>

\* The callback handles SIGNED_IN of identity id: the load effect and the
\* save effect run again.
UserSignedIn ==
    /\ app.mounted
    /\ user = NoUser
    /\ \E id \in Users, env \in AppEnvs :
        \E h \in {OnSignedIn(sessionStorage, localStorage, id, env)} :
            /\ providerUser' = id
            /\ IF Threw(h)
               THEN /\ sessionStorage' = h.ss
                    /\ localStorage' = h.ls
                    /\ last' = Report("SIGNED_IN", env, Undefined, h)
                    /\ UNCHANGED <<timers, cancelled, app, user>>
               ELSE /\ user' = id
                    /\ \E l \in {LoadEffect(app, id, loading, h.ss, h.ls, now, env)} :
                        Commit("SIGNED_IN", env, l.app, id, l.r.ss, l.r.ls, l.r,
                               timers, cancelled)
    /\ UNCHANGED <<now, loading, getSessionPending, otherTab, speech>>

\* The page is not loaded yet; the user is signed in and an earlier visit may
\* have left a record under either key.
InitApp ==
    /\ \E x, y \in {Absent,
                     JsonText(Obj(SessionWithTimestamp(
                         RichSession("A", Epoch - SESSION_TIMEOUT),
                         Epoch - SESSION_TIMEOUT)))} :
        /\ sessionStorage = [EmptyStorage EXCEPT ![SESSION_KEY] = x]
        /\ localStorage = [EmptyStorage EXCEPT ![BACKUP_KEY] = y,
                                               ![USER_ID_KEY] = Raw("A")]
    /\ now = Epoch
    /\ providerUser = "A"
    /\ user = "A"
    /\ loading = FALSE
    /\ getSessionPending = FALSE
    /\ timers = NoTimers
    /\ cancelled = {}
    /\ otherTab = EmptyStorage
    /\ app = NotMounted
    /\ speech = NotListening
    /\ last = Idle("init")

NextApp ==
    \/ Tick
    \/ Mount
    \/ StartInterview
    \/ StartInterviewWithSettings
    \/ BackToHome
    \/ InterviewComplete
    \/ NewInterview
    \/ VisibilityHidden
    \/ IntervalFires
    \/ UserSignedOut
    \/ UserSignedIn

SpecApp == InitApp /\ [][NextApp]_vars

\* A second tab of the same browser: its sessionStorage is its own, the
\* localStorage is the one of the first tab.  What `last` keeps of its calls
\* is taken on its own primary key.
InOtherTab(report) ==
    [report EXCEPT !.before.primary = Kind(otherTab[SESSION_KEY])]

OtherTabSave ==
    /\ user # NoUser
    /\ \E session \in SaveInputs(user, now), env \in Envs :
        \E r \in {saveInterviewSession(otherTab, localStorage, session, now, env)} :
            /\ otherTab' = r.ss
            /\ localStorage' = r.ls
            /\ last' = InOtherTab(Report("otherTabSave", env, Obj(session), r))
    /\ UNCHANGED <<sessionStorage, now, providerUser, user, loading,
                   getSessionPending, timers, cancelled, app, speech>>

OtherTabLoad ==
    /\ \E env \in Envs :
        \E r \in {loadInterviewSession(otherTab, localStorage, now, 0, env)} :
            /\ otherTab' = r.ss
            /\ localStorage' = r.ls
            /\ last' = InOtherTab(Report("otherTabLoad", env, Undefined, r))
    /\ UNCHANGED <<sessionStorage, now, providerUser, user, loading,
                   getSessionPending, timers, cancelled, app, speech>>

\* The second tab is closed and a new one opened: its sessionStorage is empty.
OtherTabOpens ==
    /\ otherTab' = EmptyStorage
    /\ last' = Idle("otherTabOpens")
    /\ UNCHANGED <<sessionStorage, localStorage, now, providerUser, user, loading,
                   getSessionPending, timers, cancelled, app, speech>>

NextTabs ==
    \/ Save
    \/ Load
    \/ OtherTabSave
    \/ OtherTabLoad
    \/ OtherTabOpens

SpecTabs == InitAutoSave /\ [][NextTabs]_vars

----------------------------------------------------------------------------
(* The voice input button in use *)

speechRest == <<sessionStorage, localStorage, now, providerUser, user, loading,
                getSessionPending, timers, cancelled, otherTab, app>>

\* The user presses the button: with a recognition going it is stopped, else
\* the microphone is asked for and a recognition started.  A new recognition
\* is started once the one before has ended.
StartListening ==
    /\ speech.isListening \/ speech.recognitionRef \in {"null", "ended"}
    /\ \E granted \in BOOLEAN : speech' = startListening(speech, granted)
    /\ last' = Idle("startListening")
    /\ UNCHANGED speechRest

RecognitionStarted ==
    /\ speech.recognitionRef = "starting"
    /\ speech' = onstart(speech)
    /\ last' = Idle("onstart")
    /\ UNCHANGED speechRest

RecognitionResult ==
    /\ speech.recognitionRef = "running"
    /\ \E final \in BOOLEAN : speech' = onresult(speech, final)
    /\ last' = Idle("onresult")
    /\ UNCHANGED speechRest

\* 5 seconds have passed since the last result and no other has come.
InactivityTimerFires ==
    /\ speech.timeoutRef = "pending"
    /\ speech' = InactivityTimeout(speech)
    /\ last' = Idle("inactivityTimeout")
    /\ UNCHANGED speechRest

RecognitionError ==
    /\ speech.recognitionRef \in {"starting", "running"}
    /\ \E code \in SpeechErrors : speech' = onerror(speech, code)
    /\ last' = Idle("onerror")
    /\ UNCHANGED speechRest

\* The browser ends the recognition: after stop or an error, or by itself.
RecognitionEnded ==
    /\ speech.recognitionRef \in {"running", "stopping"}
    /\ speech' = onend(speech)
    /\ last' = Idle("onend")
    /\ UNCHANGED speechRest

StopListening ==
    /\ speech' = stopListening(speech)
    /\ last' = Idle("stopListening")
    /\ UNCHANGED speechRest

ClearTranscript ==
    /\ speech' = clearTranscript(speech)
    /\ last' = Idle("clearTranscript")
    /\ UNCHANGED speechRest

PageHidden ==
    /\ speech' = stopWhenHidden(speech)
    /\ last' = Idle("pageHidden")
    /\ UNCHANGED speechRest

NextSpeech ==
    \/ StartListening
    \/ RecognitionStarted
    \/ RecognitionResult
    \/ InactivityTimerFires
    \/ RecognitionError
    \/ RecognitionEnded
    \/ StopListening
    \/ ClearTranscript
    \/ PageHidden

SpecSpeech == InitAutoSave /\ [][NextSpeech]_vars

----------------------------------------------------------------------------
(* Properties *)

primary == sessionStorage[SESSION_KEY]
backup == localStorage[BACKUP_KEY]
IsRecordText(text) == text.kind = "json" /\ IsObj(text.v)
StoreCall == last.op \in {"save", "load", "clear", "recover"}

\* C1: when the record loadInterviewSession gets hold of is older than the
\* session timeout, measured from lastUpdated or else startTime, the call
\* returns null and leaves neither the primary nor the backup key.
ExpiredRecordIsPurged ==
    (/\ last.op = "load"
     /\ IsObj(last.found)
     /\ LastUpdatedOrStart(last.found.f) # <<>>
     /\ last.at - LastUpdatedOrStart(last.found.f)[1] > SESSION_TIMEOUT)
        => /\ last.ret = Null
           /\ primary = Absent
           /\ backup = Absent

\* An expired record was found under the backup key only.
ExpiredBackupPurged ==
    /\ last.op = "load"
    /\ last.expired
    /\ last.source = "backup"
    /\ last.before.primary = "absent"
    /\ backup = Absent

\* The write of the restored record under the primary key was refused.
HealWriteFailed(l) == l.source = "backup" /\ l.env.ssFull

\* C2: a record whose lastUpdated is 7,200,001 ms back is expired (null is
\* returned), one whose lastUpdated is 7,199,999 ms back is not (the record
\* is returned).
ExpiryThreshold ==
    (/\ last.op = "load"
     /\ IsObj(last.found)
     /\ Has(last.found.f, "lastUpdated"))
        => /\ last.at - last.found.f.lastUpdated = 7200001 => last.ret = Null
           /\ (last.at - last.found.f.lastUpdated = 7199999 /\ ~HealWriteFailed(last))
                => /\ IsObj(last.ret)
                   /\ last.ret.f.settings = last.found.f.settings
                   /\ ~last.upgraded => last.ret = last.found

\* A record 7,199,999 ms old was loaded and returned.
JustInTimeLoaded ==
    /\ last.op = "load"
    /\ IsObj(last.found)
    /\ Has(last.found.f, "lastUpdated")
    /\ last.at - last.found.f.lastUpdated = 7199999
    /\ last.ret = last.found

\* A record 7,200,001 ms old was found and refused.
JustTooLateRefused ==
    /\ last.op = "load"
    /\ IsObj(last.found)
    /\ Has(last.found.f, "lastUpdated")
    /\ last.at - last.found.f.lastUpdated = 7200001
    /\ last.ret = Null

\* Two returned values are records that agree in every field but lastUpdated.
SameButLastUpdated(a, b) ==
    /\ IsObj(a)
    /\ IsObj(b)
    /\ DOMAIN a.f = DOMAIN b.f
    /\ \A f \in DOMAIN a.f \ {"lastUpdated"} : a.f[f] = b.f[f]

\* C3: when the primary key gives no session and the backup key holds an
\* unexpired record, loadInterviewSession (no storage failure) returns it (as
\* upgraded, if it is of an older version) and leaves a copy under the
\* primary key; a load that follows at once takes the record from the primary
\* key and returns the same whether or not the backup key is still there.
SelfHealing ==
    (/\ last.op = "load"
     /\ last.source = "backup"
     /\ last.env = NoFailure
     /\ ~Expired(last.found.f, last.at))
        => LET again == loadInterviewSession(sessionStorage, localStorage, now, 0, NoFailure)
               alone == loadInterviewSession(sessionStorage,
                            [localStorage EXCEPT ![BACKUP_KEY] = Absent], now, 0, NoFailure)
           IN  /\ IsObj(last.ret)
               /\ IsRecordText(primary)
               /\ ~last.upgraded => last.ret = last.found /\ primary = JsonText(last.found)
               /\ last.upgraded => last.ret = Obj(upgradeSessionFormat(last.found.f, last.at))
               /\ again.source = "primary"
               /\ alone.ret = again.ret
               /\ alone.ss = sessionStorage
               /\ SameButLastUpdated(again.ret, last.ret)
               /\ ~last.upgraded => again.ret = last.ret

\* A record of the current version was restored from the backup key.
RestoredFromBackup ==
    /\ last.op = "load"
    /\ last.source = "backup"
    /\ last.before.primary = "absent"
    /\ last.env = NoFailure
    /\ ~last.upgraded
    /\ last.ret = last.found
    /\ primary = backup

\* C4: clearInterviewSession never raises; with storage accessible it leaves
\* neither key, so that a load and a recover that follow return null under
\* every storage condition, and a second clear changes nothing.
ClearIsTotal ==
    last.op = "clear"
        => /\ last.exc = NoError
           /\ ~last.env.blocked
                => /\ primary = Absent
                   /\ backup = Absent
                   /\ \A e \in Envs :
                        /\ loadInterviewSession(sessionStorage, localStorage, now, 0, e).ret = Null
                        /\ recoverSession(sessionStorage, localStorage, e).ret = Null
                        /\ clearInterviewSession(sessionStorage, localStorage, e).ss = sessionStorage
                        /\ clearInterviewSession(sessionStorage, localStorage, e).ls = localStorage
                        /\ clearInterviewSession(sessionStorage, localStorage, e).exc = NoError

\* Both keys held a record and a clear removed them.
ClearedBoth ==
    /\ last.op = "clear"
    /\ last.before.primary = "record"
    /\ last.before.backup = "record"
    /\ primary = Absent
    /\ backup = Absent

\* A clear ran with nothing stored.
ClearedNothing ==
    /\ last.op = "clear"
    /\ last.before.primary = "absent"
    /\ last.before.backup = "absent"
    /\ ~last.env.blocked

\* A record of identity u is stored under some key of some area.
HoldsDataOf(u) ==
    \E store \in {sessionStorage, localStorage}, k \in StorageKeys :
        /\ IsRecordText(store[k])
        /\ Has(store[k].v.f, "settings")
        /\ store[k].v.f.settings.owner = u

\* C5: once the SIGNED_IN event of an identity has been handled, neither area
\* holds a session saved under another identity.
IdentityIsolation ==
    (last.op = "SIGNED_IN" /\ last.exc = NoError /\ user \in Users)
        => \A other \in Users \ {user} : ~HoldsDataOf(other)

\* While the backup key holds a record, the primary key holds that very text
\* or no record.
Mirror == IsRecordText(primary) => backup = primary

\* The call that led to state l was a save (saveInterviewSession itself or
\* the write-back of an upgrade) whose write of the backup key was refused.
BackupWriteFailed(l) == l.env.lsFull /\ l.saveError = "QuotaExceededError"

\* C6, as claimed: no call of the session store, whatever write fails in it,
\* takes the two keys from mirrored to not mirrored.
MirrorKept == [][Mirror => Mirror']_vars

\* C6, amended: a call of the session store takes the two keys from mirrored
\* to not mirrored only if it is a save whose backup write is refused for
\* lack of space after its primary write went through.
MirrorKeptUnlessBackupWriteFails ==
    [][(Mirror /\ ~BackupWriteFailed(last')) => Mirror']_vars

\* A save whose primary write was refused left the mirrored pair as it was.
MirrorAfterFailedPrimaryWrite ==
    /\ last.op = "save"
    /\ last.env.ssFull
    /\ last.saveError = "QuotaExceededError"
    /\ IsRecordText(primary)
    /\ backup = primary

\* C7: saveInterviewSession, loadInterviewSession, clearInterviewSession and
\* recoverSession let no exception escape, whatever the keys hold and
\* whatever storage call fails; load and recover return a record or null.
NothingEscapes ==
    StoreCall
        => /\ last.exc = NoError
           /\ last.op \in {"load", "recover"} => last.ret = Null \/ IsObj(last.ret)
           /\ last.op \in {"save", "clear"} => last.ret = Undefined

\* A load with storage access denied ended in the catch block, whose clear
\* failed in turn, and returned null.
LoadSurvivedDeniedStorage ==
    /\ last.op = "load"
    /\ last.env.blocked
    /\ last.before.primary = "record"
    /\ "SecurityError" \in last.logged
    /\ last.ret = Null

\* C8: a write refused for lack of space inside saveInterviewSession shows the
\* alert and the call returns normally; nothing else shows it: a failure of
\* another kind, in any call of the session store, is only logged.
QuotaWarningOnly ==
    StoreCall
        => /\ last.alerted <=> last.saveError = "QuotaExceededError"
           /\ last.op = "save" => (last.alerted <=> (last.env.ssFull \/ last.env.lsFull))
           /\ last.op = "save" => last.exc = NoError
           /\ last.op \in {"clear", "recover"} => ~last.alerted
           /\ (last.op = "load" /\ ~last.upgraded) => ~last.alerted

\* A save whose backup write was refused showed the alert.
WarnedOnFullBackup ==
    /\ last.op = "save"
    /\ last.env.lsFull
    /\ last.alerted
    /\ last.logged = {"QuotaExceededError"}

\* C9: when loadInterviewSession comes upon text that JSON.parse rejects,
\* under the primary key or, the primary giving no session, under the backup
\* key, it returns null and leaves neither key, so no later load meets it.
CorruptRecordsRemoved ==
    (/\ last.op = "load"
     /\ ~last.env.blocked
     /\ \/ last.before.primary = "raw"
        \/ last.before.primary \in {"absent", "null"} /\ last.before.backup = "raw")
        => /\ last.ret = Null
           /\ "SyntaxError" \in last.logged
           /\ primary = Absent
           /\ backup = Absent
           /\ "SyntaxError" \notin
                loadInterviewSession(sessionStorage, localStorage, now, 0, NoFailure).logged

\* A load met corrupt text under the primary key.
CorruptPrimaryRemoved ==
    /\ last.op = "load"
    /\ last.before.primary = "raw"
    /\ last.ret = Null
    /\ primary = Absent

\* The last call saved, with no write refused, a record that has neither a
\* version nor coveredTopics.
SavedLegacyRecord ==
    /\ last.op = "save"
    /\ last.saveError = "none"
    /\ ~Has(last.arg.f, "version")
    /\ ~Has(last.arg.f, "coveredTopics")

\* The load that follows the current state at once.
NextLoad == loadInterviewSession(sessionStorage, localStorage, now, 0, NoFailure)

\* C10, as claimed: after a save of a record without version and
\* coveredTopics the next load returns a record of the current version whose
\* coveredTopics is empty.
LegacySaveThenLoadUpgrades ==
    SavedLegacyRecord
        => /\ IsObj(NextLoad.ret)
           /\ NextLoad.ret.f.version = CURRENT_VERSION
           /\ Has(NextLoad.ret.f, "coveredTopics")
           /\ NextLoad.ret.f.coveredTopics = <<>>

\* C10, amended: after such a save the next load returns the record with the
\* current version, which the save has stamped on it, and still without
\* coveredTopics; a record that load finds stored without a version comes
\* back with the current version and empty coveredTopics.
LegacyUpgradedOnlyWhenStoredUnversioned ==
    /\ SavedLegacyRecord
        => /\ IsObj(NextLoad.ret)
           /\ ~NextLoad.upgraded
           /\ NextLoad.ret.f.version = CURRENT_VERSION
           /\ ~Has(NextLoad.ret.f, "coveredTopics")
    /\ (last.op = "load" /\ IsObj(last.ret) /\ ~Has(last.found.f, "version"))
        => /\ last.upgraded
           /\ last.ret.f.version = CURRENT_VERSION
           /\ Has(last.ret.f, "coveredTopics")
           /\ last.ret.f.coveredTopics = <<>>

\* A record stored without a version was loaded.
UnversionedRecordLoaded ==
    /\ last.op = "load"
    /\ IsObj(last.ret)
    /\ ~Has(last.found.f, "version")
    /\ ~Has(last.found.f, "coveredTopics")

\* C11, as claimed: whenever loadInterviewSession has upgraded a stored record,
\* both keys hold, when it returns, a record of the current version that
\* agrees with the returned record in every field but lastUpdated, and the
\* next load upgrades nothing.
UpgradeWrittenBack ==
    (last.op = "load" /\ last.upgraded)
        => /\ IsRecordText(primary)
           /\ backup = primary
           /\ primary.v.f.version = CURRENT_VERSION
           /\ SameButLastUpdated(primary.v, last.ret)
           /\ ~NextLoad.upgraded

\* C11, amended: a load that upgrades returns a record of the current version;
\* if no write of its save is refused, both keys then hold one text, a record
\* of the current version that agrees with the returned one in every field
\* but lastUpdated, and the next load returns it without an upgrade.  If the
\* primary write is refused neither area changes; if the backup write is
\* refused the primary key holds the upgraded record and the durable area is
\* as it was.
UpgradeWrittenBackUnlessWriteFails ==
    [][(last'.op = "load" /\ last'.upgraded)
        => /\ IsObj(last'.ret)
           /\ last'.ret.f.version = CURRENT_VERSION
           /\ last'.saveError = "none"
                => /\ IsRecordText(primary')
                   /\ backup' = primary'
                   /\ primary'.v.f.version = CURRENT_VERSION
                   /\ SameButLastUpdated(primary'.v, last'.ret)
                   /\ ~NextLoad'.upgraded
                   /\ NextLoad'.ret = primary'.v
           /\ last'.env.ssFull
                => /\ sessionStorage' = sessionStorage
                   /\ localStorage' = localStorage
           /\ last'.env.lsFull
                => /\ localStorage' = localStorage
                   /\ IsRecordText(primary')
                   /\ SameButLastUpdated(primary'.v, last'.ret)]_vars

\* A record of an older version was upgraded and written under both keys.
UpgradedAndWrittenBack ==
    /\ last.op = "load"
    /\ last.upgraded
    /\ last.saveError = "none"
    /\ Has(last.found.f, "version")
    /\ last.found.f.version = "1.0"
    /\ IsRecordText(primary)
    /\ backup = primary
    /\ primary.v.f.version = CURRENT_VERSION

\* The returned value is session s but for lastUpdated, which is t, and
\* version, which is the current one.
EqualButStamp(ret, s, t) ==
    LET kept == (DOMAIN s \ UndefinedFields(s)) \ {"lastUpdated", "version"}
    IN  /\ IsObj(ret)
        /\ DOMAIN ret.f = kept \cup {"lastUpdated", "version"}
        /\ ret.f.lastUpdated = t
        /\ ret.f.version = CURRENT_VERSION
        /\ \A f \in kept : ret.f[f] = s[f]

\* The instants up to the session timeout after the current one.
BeforeTimeout == {t \in Instants : t >= now /\ t - now <= SESSION_TIMEOUT}

\* C12: a load that follows a save of session s, with no storage failure and
\* within the session timeout, returns s in every field but lastUpdated (the
\* time of the save) and version (the current one), whatever the two keys
\* held before the save.
RoundTrip ==
    /\ (last.op = "save" /\ last.saveError = "none")
        => \A t \in BeforeTimeout :
            LET r == loadInterviewSession(sessionStorage, localStorage, t, 0, NoFailure)
            IN  /\ EqualButStamp(r.ret, last.arg.f, last.at)
                /\ r.source = "primary"
                /\ ~r.upgraded
    /\ \A s \in SaveInputs("A", now) \cup {SessionWithUndefinedField("A", now)} :
        \A t \in BeforeTimeout :
            LET saved == saveInterviewSession(sessionStorage, localStorage, s, now, NoFailure)
                r == loadInterviewSession(saved.ss, saved.ls, t, 0, NoFailure)
            IN  EqualButStamp(r.ret, s, now)

\* A session of two questions carrying version 3.0 was saved over an older
\* record and reads back with its questions and the current version.
SavedAndReadBack ==
    /\ last.op = "save"
    /\ last.env = NoFailure
    /\ last.before.primary = "record"
    /\ Has(last.arg.f, "version")
    /\ last.arg.f.version = "3.0"
    /\ Len(last.arg.f.questions) = 2
    /\ IsObj(NextLoad.ret)
    /\ NextLoad.ret.f.questions = last.arg.f.questions
    /\ NextLoad.ret.f.version = CURRENT_VERSION

\* The records the two keys hold.
StoredRecords ==
    {text.v.f : text \in {x \in {primary, backup} : IsRecordText(x)}}

UpgradePreservesFields ==
    (last.op = "load" /\ last.upgraded)
        => \A f \in DOMAIN last.found.f \ {"version"} :
            /\ Has(last.ret.f, f)
            /\ last.ret.f[f] = last.found.f[f]

\* C15: with a record under the backup key and no storage failure,
\* recoverSession puts the very text of the backup key under the primary key,
\* whatever its version and age, and returns the record it parses to; with
\* no backup key it returns null and changes nothing.  It never changes the
\* durable area.
RecoverIsVerbatim ==
    [][last'.op = "recover"
        => /\ localStorage' = localStorage
           /\ (IsRecordText(backup) /\ last'.env = NoFailure)
                => /\ sessionStorage' = [sessionStorage EXCEPT ![SESSION_KEY] = backup]
                   /\ last'.ret = backup.v
           /\ backup = Absent
                => /\ last'.ret = Null
                   /\ sessionStorage' = sessionStorage]_vars

\* A recover copied a backup record of an older version over a different
\* primary content and returned it as it was stored.
RecoveredOldRecordVerbatim ==
    /\ last.op = "recover"
    /\ last.env = NoFailure
    /\ IsRecordText(backup)
    /\ NeedsUpgrade(backup.v.f)
    /\ last.before.primary = "raw"
    /\ primary = backup
    /\ last.ret = backup.v

\* A recover found no backup key and left a primary record in place.
RecoveredNothing ==
    /\ last.op = "recover"
    /\ last.before.backup = "absent"
    /\ last.ret = Null
    /\ IsRecordText(primary)

\* The session getSessionStats got hold of is one it reports on: not expired,
\* with its settings, questions and startTime, and restored, if it came from
\* the backup key, without a refused write.
ReportsOn(l) ==
    /\ IsObj(l.found)
    /\ ~Expired(l.found.f, l.at)
    /\ {"settings", "questions", "startTime"} \subseteq DOMAIN l.found.f
    /\ ~HealWriteFailed(l)

\* C16: for a stored session that is not expired getSessionStats returns
\* hasActiveSession = true, questionCount = the number of stored questions,
\* sessionAge = now - startTime and completionRate = 100 * questionCount /
\* settings.questionCount: 40 for 2 questions of 5.
StatsValues ==
    (last.op = "stats" /\ ReportsOn(last))
        => LET session == last.found.f
               stats == last.ret.f
           IN  /\ last.exc = NoError
               /\ IsObj(last.ret)
               /\ stats.hasActiveSession
               /\ stats.questionCount = Len(session.questions)
               /\ stats.sessionAge = Number(now - session.startTime)
               /\ stats.completionRate.den # 0
               /\ stats.completionRate.num * session.settings.questionCount
                    = 100 * Len(session.questions) * stats.completionRate.den
               /\ (Len(session.questions) = 2 /\ session.settings.questionCount = 5)
                    => stats.completionRate = [num |-> 40, den |-> 1]

\* The statistics of a saved session of 2 questions out of 5 were asked for.
StatsOfTwoOutOfFive ==
    /\ last.op = "stats"
    /\ ReportsOn(last)
    /\ last.found.f.settings.owner = "A"
    /\ last.ret.f.hasActiveSession
    /\ last.ret.f.questionCount = 2
    /\ last.ret.f.completionRate = [num |-> 40, den |-> 1]

\* C17: getSessionStats returns a result and raises nothing, whatever the two
\* keys hold; when it gets no session the result is hasActiveSession = false
\* with sessionAge, questionCount and completionRate all 0.
StatsNeverFails ==
    last.op = "stats"
        => /\ last.exc = NoError
           /\ IsObj(last.ret)
           /\ (~IsObj(last.found) \/ last.expired) => last.ret = Obj(NoSessionStats)

\* C18: getSessionStats leaves both storage areas as they are.
StatsReadOnly ==
    [][last'.op = "stats"
        => /\ sessionStorage' = sessionStorage
           /\ localStorage' = localStorage]_vars

\* C19: a timer whose cancel function has been called runs its save no more;
\* the cancel function raises nothing, and a further call of it changes
\* nothing.
AutoSaveStopsOnCancel ==
    [][/\ last'.op = "autoSave" => last'.timer \notin cancelled
       /\ last'.op = "cancel" => last'.exc = NoError
       /\ \A id \in cancelled' :
            /\ timers'[id].state = "cleared"
            /\ Cleanup(timers', id) = timers']_vars

\* One timer has been cancelled after it had saved, and the save that has
\* just run is that of another timer.
OtherTimerStillSaves ==
    /\ last.op = "autoSave"
    /\ cancelled # {}
    /\ last.timer \notin cancelled
    /\ \E id \in cancelled : timers[id].session # timers[last.timer].session
    /\ primary = JSONstringify(Obj(SessionWithTimestamp(timers[last.timer].session.f, now)))

\* The sign-out of an identity has been handled: the SIGNED_OUT branch of the
\* callback ran through, or authHelpers.signOut returned with no error.
SignOutHandled ==
    \/ last.op = "SIGNED_OUT" /\ last.exc = NoError
    \/ last.op = "signOut" /\ last.ret = Obj([error |-> FALSE])

\* C20: once a sign-out has been handled neither area holds a session key,
\* identity-scoped or legacy, and the 'currentUserId' marker is gone, whether
\* or not the marker was there before.
SignOutPurges ==
    SignOutHandled
        => /\ localStorage[USER_ID_KEY] = Absent
           /\ \A k \in StorageKeys \ {USER_ID_KEY} :
                /\ sessionStorage[k] = Absent
                /\ localStorage[k] = Absent

\* C21: a storage call that throws while a SIGNED_IN or SIGNED_OUT event is
\* handled does not keep the handler from setting the auth state, and handling
\* the same event once more leaves both storage areas as they are.
CleanerNeverFailsAuthFlow ==
    /\ last.op = "SIGNED_IN"
        => /\ last.exc = NoError
           /\ user = providerUser
           /\ ~loading
           /\ \A e \in Envs :
                LET again == OnSignedIn(sessionStorage, localStorage, user, e)
                IN  again.ss = sessionStorage /\ again.ls = localStorage
    /\ last.op = "SIGNED_OUT"
        => /\ last.exc = NoError
           /\ user = NoUser
           /\ ~loading
           /\ \A e \in Envs :
                LET again == OnSignedOut(sessionStorage, localStorage, e)
                IN  again.ss = sessionStorage /\ again.ls = localStorage

\* C22: handling SIGNED_IN for identity N purges the session keys exactly when
\* a marker was there and differed from N, and otherwise leaves the primary
\* and the backup key alone; the marker holds N when the handler has run
\* through.  (A handler that a storage call ended: if it was the read of the
\* marker nothing has changed, if it was the write the marker is as before.)
PurgedFor(userId) ==
    \A k \in InterviewKeys(userId) :
        sessionStorage[k] = Absent /\ localStorage[k] = Absent
SignedInBookkeeping ==
    [][last'.op = "SIGNED_IN" =>
        LET previous == localStorage[USER_ID_KEY]
            N == providerUser'
        IN  IF last'.exc = SecurityError
            THEN sessionStorage' = sessionStorage /\ localStorage' = localStorage
            ELSE /\ localStorage'[USER_ID_KEY] =
                        IF last'.exc = NoError THEN Raw(N) ELSE previous
                 /\ IF Present(previous) /\ previous # Raw(N)
                    THEN PurgedFor(previous.s)'
                    ELSE /\ sessionStorage' = sessionStorage
                         /\ \A k \in StorageKeys \ {USER_ID_KEY} :
                                localStorage'[k] = localStorage[k]]_vars
SameUserSignedInAgain ==
    /\ last.op = "SIGNED_IN"
    /\ last.exc = NoError
    /\ localStorage[USER_ID_KEY] = Raw(providerUser)
    /\ IsRecordText(primary)
    /\ IsRecordText(backup)
    /\ primary.v.f.settings.owner = providerUser

\* The text a save writes: the record it was given, stamped at the time of
\* the call.
SavedText(l) == JSONstringify(Obj(SessionWithTimestamp(l.arg.f, l.at)))

\* C23, as claimed: the backup key is written before the primary key, so a
\* save in which a write fails never leaves the primary key updated alone.
BackupWrittenBeforePrimary ==
    [][(last'.op = "save" /\ last'.saveError # "none")
        => sessionStorage' = sessionStorage]_vars

\* C23, amended: the primary key is written before the backup key, so a save
\* in which a write fails never leaves the backup key updated: either the
\* first write failed and neither key changed, or the second did and the
\* primary key alone holds the new text.
PrimaryWrittenBeforeBackup ==
    [][(last'.op = "save" /\ last'.saveError # "none")
        => /\ localStorage' = localStorage
           /\ IF last'.env.lsFull
              THEN sessionStorage' =
                     [sessionStorage EXCEPT ![SESSION_KEY] = SavedText(last')]
              ELSE sessionStorage' = sessionStorage]_vars

\* The backup write of a save was refused after the primary key took the new
\* text: the primary key alone is updated.
OnlyPrimaryUpdated ==
    /\ last.op = "save"
    /\ last.env.lsFull
    /\ last.saveError = "QuotaExceededError"
    /\ primary = SavedText(last)
    /\ backup # primary

\* A load got hold of a stored record and no storage call failed in it.
LoadFoundRecord ==
    /\ last.op = "load"
    /\ IsObj(last.found)
    /\ last.env = NoFailure

LoadFailurePurgesBoth ==
    (/\ last.op = "load"
     /\ ~last.env.blocked
     /\ \/ last.before.primary = "raw"
        \/ HealWriteFailed(last))
        => /\ last.ret = Null
           /\ last.logged # {}
           /\ primary = Absent
           /\ backup = Absent

\* A record under the backup key that had not expired was removed by a load
\* that ended in the catch block.
ValidBackupPurged ==
    /\ last.op = "load"
    /\ last.before.backup = "record"
    /\ HealWriteFailed(last)
    /\ ~Expired(last.found.f, last.at)
    /\ last.ret = Null
    /\ backup = Absent

\* C28: every tick of a timer that enableAutoSave has set saves the record
\* that was passed when it was set, with lastUpdated of the tick and the
\* current version, whatever the keys held before; unless a write of it is
\* refused, both keys hold that record afterwards.
AutoSaveWritesSnapshot ==
    last.op = "autoSave"
        => LET captured == timers[last.timer].session
               text == JSONstringify(Obj(SessionWithTimestamp(captured.f, last.at)))
           IN  /\ last.arg = captured
               /\ last.saveError = "none" => primary = text /\ backup = text
               /\ last.env.lsFull => primary = text

\* A tick that found neither key put the captured record, which had no
\* lastUpdated, under both keys with one.
SnapshotRecreated ==
    /\ last.op = "autoSave"
    /\ last.before.primary = "absent"
    /\ last.before.backup = "absent"
    /\ last.saveError = "none"
    /\ ~Has(timers[last.timer].session.f, "lastUpdated")
    /\ primary = backup
    /\ primary.v.f.lastUpdated = last.at
    /\ IsRecordText(primary)
    /\ primary.v.f.startTime = timers[last.timer].session.f.startTime

\* The last step was a save of AppContent itself, in the save effect or in
\* the visibility handler.
AppSaved == last.op # "autoSave" /\ IsObj(last.arg)

\* C25: a session record that AppContent persists has no currentQuestionIndex
\* when questions is empty, and one with 0 <= currentQuestionIndex <
\* len(questions) when it is not.
QuestionIndexInvariant ==
    (AppSaved /\ last.saveError = "none")
        => LET session == primary.v.f
           IN  IF session.questions = <<>>
               THEN ~Has(session, "currentQuestionIndex")
               ELSE /\ Has(session, "currentQuestionIndex")
                    /\ 0 <= session.currentQuestionIndex
                    /\ session.currentQuestionIndex < Len(session.questions)

\* C26: while an interview goes on, from one save of AppContent to the next
\* with no clear in between, the startTime under the primary key stays what
\* it was.
StartTimeImmutable ==
    [][(/\ AppSaved'
        /\ InInterview(app, user)
        /\ InInterview(app', user')
        /\ IsRecordText(primary)
        /\ IsRecordText(primary'))
        => primary'.v.f.startTime = primary.v.f.startTime]_vars

\* C27: at most one auto-save timer is active; one is active only while the
\* interview screen is shown with settings and a user, and then it is the
\* timer the last run of the save effect has set, on the settings and the
\* questions of the current state: the timer of no earlier run is active.
ActiveTimers == {id \in TimerIds : timers[id].state = "active"}
AutoSaveLifecycle ==
    /\ Cardinality(ActiveTimers) <= 1
    /\ ActiveTimers # {} => InInterview(app, user)
    /\ ActiveTimers \subseteq {app.cleanup}
    /\ InInterview(app, user)
        => /\ ActiveTimers = {app.cleanup}
           /\ timers[app.cleanup].session.f.settings = app.interviewSettings.f
           /\ timers[app.cleanup].session.f.questions = app.interviewQuestions

\* The save effect has run a second time with an interview going on: the
\* timer of its first run is cleared and that of the second is active.
SecondTimerReplacedFirst ==
    /\ InInterview(app, user)
    /\ app.cleanup = 2
    /\ timers[1].state = "cleared"
    /\ timers[2].state = "active"

\* C29: nothing keeps the saves of two tabs apart: a save in either tab that
\* meets no refusal puts its record under the shared backup key, whatever the
\* other tab wrote there before, and leaves the other tab's primary key as it
\* is; a load in a tab whose primary key is absent takes what the backup key
\* holds, whichever tab wrote it.
LastWriterWins ==
    [][/\ (last'.op = "save" /\ last'.saveError = "none")
            => /\ localStorage'[BACKUP_KEY] = SavedText(last')
               /\ sessionStorage'[SESSION_KEY] = SavedText(last')
               /\ otherTab' = otherTab
       /\ (last'.op = "otherTabSave" /\ last'.saveError = "none")
            => /\ localStorage'[BACKUP_KEY] = SavedText(last')
               /\ otherTab'[SESSION_KEY] = SavedText(last')
               /\ sessionStorage' = sessionStorage
       /\ (/\ last'.op = "otherTabLoad"
           /\ last'.env = NoFailure
           /\ otherTab[SESSION_KEY] = Absent
           /\ IsRecordText(backup))
            => /\ last'.source = "backup"
               /\ last'.found = backup.v
               /\ last'.ret = backup.v
               /\ otherTab'[SESSION_KEY] = backup
               /\ sessionStorage' = sessionStorage]_vars

\* The second tab, which had a record under its primary key, has saved: the
\* backup key holds its record and no more the one the first tab still has
\* under its primary key.
FirstTabOverwritten ==
    /\ last.op = "otherTabSave"
    /\ last.saveError = "none"
    /\ last.before.primary = "record"
    /\ last.before.backup = "record"
    /\ IsRecordText(primary)
    /\ backup = SavedText(last)
    /\ backup = otherTab[SESSION_KEY]
    /\ primary # backup

\* C31: recoverSession checks no expiry and cleans nothing up: a backup record
\* older than the timeout, which loadInterviewSession would answer with null,
\* is returned as it is; the backup key is never changed; and with text under
\* the backup key that JSON.parse rejects it returns null and leaves both
\* keys as they were.
RecoverIgnoresAge ==
    [][last'.op = "recover"
        => /\ localStorage'[BACKUP_KEY] = backup
           /\ (/\ IsRecordText(backup)
               /\ Expired(backup.v.f, now)
               /\ last'.env = NoFailure)
                => /\ last'.ret = backup.v
                   /\ sessionStorage'[SESSION_KEY] = backup
                   /\ loadInterviewSession(
                         [sessionStorage EXCEPT ![SESSION_KEY] = Absent],
                         localStorage, now, 0, NoFailure).ret = Null
           /\ backup.kind = "raw"
                => /\ last'.ret = Null
                   /\ sessionStorage' = sessionStorage
                   /\ localStorage' = localStorage]_vars

\* A recover returned a backup record older than the timeout and put it
\* under the primary key.
ExpiredBackupRecovered ==
    /\ last.op = "recover"
    /\ last.env = NoFailure
    /\ IsRecordText(backup)
    /\ Expired(backup.v.f, last.at)
    /\ last.ret = backup.v
    /\ primary = backup

\* C32: a load that finds under the primary key a record that has not
\* expired and needs no upgrade returns it and changes neither storage area
\* (storage being readable); a load with neither key present returns null and
\* changes nothing.
LoadFrame ==
    [][last'.op = "load"
        => /\ (/\ ~last'.env.blocked
               /\ IsRecordText(primary)
               /\ ~Expired(primary.v.f, now)
               /\ ~NeedsUpgrade(primary.v.f))
                => /\ last'.ret = primary.v
                   /\ sessionStorage' = sessionStorage
                   /\ localStorage' = localStorage
           /\ (primary = Absent /\ backup = Absent)
                => /\ last'.ret = Null
                   /\ sessionStorage' = sessionStorage
                   /\ localStorage' = localStorage]_vars

\* A load returned the record of the primary key and left rejected text
\* under the backup key where it was.
LoadedWithoutWriting ==
    /\ last.op = "load"
    /\ last.source = "primary"
    /\ ~last.upgraded
    /\ last.before.backup = "raw"
    /\ backup.kind = "raw"
    /\ IsRecordText(primary)
    /\ last.ret = primary.v

\* C33: no call of the session store and no auth handler writes a key scoped
\* to an identity: those keys are absent from both areas in every state, and
\* checkInterviewState answers false for every identity, also with a session
\* stored under the unscoped keys.
ScopedKeysNeverWritten ==
    \A u \in Users :
        /\ sessionStorage[ScopedSessionKey(u)] = Absent
        /\ sessionStorage[ScopedBackupKey(u)] = Absent
        /\ localStorage[ScopedSessionKey(u)] = Absent
        /\ localStorage[ScopedBackupKey(u)] = Absent
        /\ \A e \in Envs :
            ~checkInterviewState(sessionStorage, localStorage, u, e)

\* The signed-in user has a session stored under both unscoped keys and
\* checkInterviewState answers false for that user.
ActiveSessionNotSeen ==
    /\ user \in Users
    /\ last.op = "save"
    /\ IsRecordText(primary)
    /\ IsRecordText(backup)
    /\ primary.v.f.settings.owner = user
    /\ ~checkInterviewState(sessionStorage, localStorage, user, NoFailure)

\* C34: when the inactivity timer fires while the hook is listening, 5 seconds
\* after the last result, it calls stop on the recognition object: the
\* recognition is stopping, and its onend then ends listening.
InactivityStopsListening ==
    [][(/\ last'.op = "inactivityTimeout"
        /\ speech.isListening
        /\ speech.recognitionRef = "running")
        => speech'.recognitionRef = "stopping"]_vars

====
